---------------------------- MODULE Spec2Model ----------------------------
(***************************************************************************)
(* A model of scripts/sync.py: the type-string parser, the heading-driven  *)
(* property extractor (one scope, one scope with its nodes recorded, and   *)
(* a whole document), the schema builder and enhancer statement by         *)
(* statement, the main run that fetches, validates and writes the schema,  *)
(* and two runs of the pipeline on the same pages side by side.            *)
(*                                                                         *)
(* Text is a sequence of lexemes.  A lexeme is one character ("[", "|",    *)
(* " ", "a", ...) or one keyword the regular expressions of the source     *)
(* treat as a unit ("dict", "list", "One of:", ...).  Python's str         *)
(* methods and the compiled patterns are modelled on these sequences.      *)
(***************************************************************************)
EXTENDS Integers, Sequences, FiniteSets, TLC

VARIABLES
    typeIn,      \* TypeParser.parse: the argument type_str
    typeOut,     \* TypeParser.parse: the returned fragment
    typePc,      \* "call" before the call, "done" after it
    typeForm     \* how typeIn was written down (what the caller meant)

VARIABLES
    tableRows,   \* _extract_table_values: the rows of the table, each the
                 \* texts of its cells in order
    tableOut,    \* _extract_table_values: the returned list
    tablePc      \* "call" before the call, "done" after it

VARIABLES
    exPc,            \* PropertyExtractor: "headings" in the loop of
                     \* extract_all, "walk" in the loop of
                     \* _parse_property_content, "done" after the return
    properties,      \* extract_all: the dict, as its items in insertion order
    prop,            \* the PropertySchema being filled, or NoProp
    expecting_type,  \* _parse_property_content: its four flags
    expecting_desc,
    found_type,
    found_desc,
    nHeadings,       \* headings met so far
    nNodes,          \* nodes walked so far (in the scope, or in the document)
    signals,         \* history: which of "type", "enum" the walk has set
    descRaw,         \* history: the text the stored description was taken from
    descPath,        \* history: "p" or "dl", the node kind it came from
    scope,           \* history: the nodes walked since the last heading
    lastScope,       \* history: per path, the scope of its last heading
    overwritten      \* history: the records a later heading has replaced

VARIABLES
    mainPc,          \* main: the statement it is at, "returned" or "aborted"
    counts,          \* main: the lengths known so far, by category
    extensions,      \* ExtensionParser.parse: the set extensions
    raised,          \* the exception that ended main, or "none"
    written,         \* schema_output.write_text has been called
    fileBefore,      \* the schema file at the start: "absent", "same" (as the
                     \* new content) or "differs"
    fetched,         \* history: the documents fetch has returned, in order
    failedFetches,   \* history: the documents whose retrieval failed
    failedChecks     \* history: the categories whose count was too low

VARIABLES
    pipeDoc,         \* the two runs: the document both are given
    pipeLists,       \* the two runs: the identifier lists both are given
    run              \* per run, the stage it is at and what it has computed

VARIABLES
    buildPc,          \* the statement of build/enhance that comes next
    self_properties,  \* SchemaBuilder: self.properties, its items in order
    self_categorized, \* SchemaBuilder: self.categorized
    build_defs,       \* SchemaBuilder.build: defs
    self_schema,      \* SchemaEnhancer: self.schema, its "properties" and
                      \* "$defs"
    built_schema,     \* history: the schema as build returned it
    enhancer_lists    \* SchemaEnhancer: plugins, bases, extensions, interfaces

typeVars == <<typeIn, typeOut, typePc, typeForm>>

walkVars == <<prop, expecting_type, expecting_desc, found_type, found_desc>>

extractVars ==
    <<exPc, properties, walkVars, nHeadings, nNodes, signals, descRaw,
      descPath, scope, lastScope, overwritten>>

tableVars == <<tableRows, tableOut, tablePc>>

mainVars ==
    <<mainPc, counts, extensions, raised, written, fileBefore, fetched,
      failedFetches, failedChecks>>

pipeVars == <<pipeDoc, pipeLists, run>>

buildVars ==
    <<buildPc, self_properties, self_categorized, build_defs, self_schema,
      built_schema, enhancer_lists>>

vars == <<typeVars, tableVars, extractVars, mainVars, pipeVars, buildVars>>

----------------------------------------------------------------------------
(* Bounds of the model *)

\* nesting depth of the generated dict[..]/list[..]/set[..] type strings
MaxDepth == 2
\* number of quoted literals in a generated "One of: [...]" string
MaxLits == 2
\* number of rows of a table
MaxRows == 4
\* number of nodes between a heading and the next one
MaxNodes == 4
\* number of headings of a document
MaxHeadings == 3
\* number of nodes of a document, in all its scopes together
MaxDocNodes == 3
\* number of properties handed to the schema builder
MaxProps == 2

----------------------------------------------------------------------------
(* Python values *)

\* {} : the empty fragment
EmptyFrag == [k \in {} |-> k]
\* JSON true, as a value of "additionalProperties"
JsonTrue == [true |-> TRUE]

SetMin(S) == CHOOSE x \in S : \A y \in S : x <= y
SetMax(S) == CHOOSE x \in S : \A y \in S : x >= y

\* str.lower() on one lexeme
LowerLex(l) ==
    CASE l = "Str" -> "str"
      [] l = "Dict" -> "dict"
      [] l = "One of:" -> "one of:"
      [] l = "Value" -> "value"
      [] l = "NAME" -> "name"
      [] l = "Type" -> "type"
      [] l = "Description" -> "description"
      [] l = "Values" -> "values"
      [] OTHER -> l

\* str.lower()
lower(s) == [i \in 1..Len(s) |-> LowerLex(s[i])]

\* str.strip(chars): drop the leading and trailing lexemes that are in chars
strip_chars(s, chars) ==
    IF \A i \in 1..Len(s) : s[i] \in chars THEN <<>>
    ELSE LET first == CHOOSE i \in 1..Len(s) :
                          /\ s[i] \notin chars
                          /\ \A j \in 1..(i - 1) : s[j] \in chars
             last == CHOOSE i \in 1..Len(s) :
                         /\ s[i] \notin chars
                         /\ \A j \in (i + 1)..Len(s) : s[j] \in chars
         IN  SubSeq(s, first, last)

\* the backquote character, which a TLA+ string cannot hold
Backtick == "BQ"

\* whitespace lexemes: the space, and the tab (whitespace that is not " ")
Whitespace == {" ", "\t"}

\* str.strip()
strip(s) == strip_chars(s, Whitespace)

\* str.split(sep) for a one-lexeme separator
RECURSIVE split_on(_, _)
split_on(s, sep) ==
    LET at == {i \in 1..Len(s) : s[i] = sep}
    IN  IF at = {} THEN <<s>>
        ELSE <<SubSeq(s, 1, SetMin(at) - 1)>>
                 \o split_on(SubSeq(s, SetMin(at) + 1, Len(s)), sep)

----------------------------------------------------------------------------
(* TypeParser *)

BASIC_TYPES ==
    [t \in {"str", "string", "int", "integer", "bool", "boolean", "float",
            "number", "any", "none", "null"} |->
        CASE t \in {"str", "string"}   -> [type |-> "string"]
          [] t \in {"int", "integer"}  -> [type |-> "integer"]
          [] t \in {"bool", "boolean"} -> [type |-> "boolean"]
          [] t \in {"float", "number"} -> [type |-> "number"]
          [] t = "any"                 -> EmptyFrag
          [] OTHER                     -> [type |-> "null"]]

\* ONE_OF_PATTERN.match: "One of:", \s*, "[", one or more non-"]", "]".
\* The position of the "[" and of the first "]" after it; <<0, 0>> for no match.
ONE_OF_PATTERN_span(s) ==
    IF Len(s) < 1 \/ LowerLex(s[1]) # "one of:" THEN <<0, 0>>
    ELSE LET nonws == {i \in 2..Len(s) : s[i] \notin Whitespace}
         IN  IF nonws = {} \/ s[SetMin(nonws)] # "[" THEN <<0, 0>>
             ELSE LET p == SetMin(nonws)
                      close == {j \in (p + 1)..Len(s) : s[j] = "]"}
                  IN  IF close = {} \/ SetMin(close) < p + 2 THEN <<0, 0>>
                      ELSE <<p, SetMin(close)>>

\* re.findall(r"'([^']+)'", g): the quoted, non-empty, quote-free pieces of g,
\* scanned from the left without overlap
RECURSIVE findall_quoted(_)
findall_quoted(g) ==
    IF g = <<>> THEN <<>>
    ELSE IF /\ g[1] = "'"
            /\ Len(g) >= 3
            /\ g[2] # "'"
            /\ \E q \in 3..Len(g) : g[q] = "'"
         THEN LET q == SetMin({r \in 3..Len(g) : g[r] = "'"})
              IN  <<SubSeq(g, 2, q - 1)>>
                      \o findall_quoted(SubSeq(g, q + 1, Len(g)))
         ELSE findall_quoted(Tail(g))

\* DICT_PATTERN.match: "dict[", one or more non-commas, ",", \s*, (.+), "]".
\* Group 2, or <<"nomatch">>.  The comma is the first one; the "]" the last.
DICT_PATTERN_group2(s) ==
    IF Len(s) < 2 \/ LowerLex(s[1]) # "dict" \/ s[2] # "[" THEN <<"nomatch">>
    ELSE LET commas == {i \in 3..Len(s) : s[i] = ","}
         IN  IF commas = {} \/ SetMin(commas) < 4 THEN <<"nomatch">>
             ELSE LET c == SetMin(commas)
                      close == {j \in (c + 2)..Len(s) : s[j] = "]"}
                  IN  IF close = {} THEN <<"nomatch">>
                      ELSE LET j == SetMax(close)
                               \* \s* is greedy but gives back what (.+) needs
                               ws == {k \in 0..(j - c - 2) :
                                        \A i \in (c + 1)..(c + k) :
                                            s[i] \in Whitespace}
                           IN  SubSeq(s, c + 1 + SetMax(ws), j - 1)

\* LIST_PATTERN.match / SET_PATTERN.match: word, "[", (.+), "]".
\* Group 1, or <<"nomatch">>.  The "]" is the last one.
BRACKET_PATTERN_group1(word, s) ==
    IF Len(s) < 2 \/ LowerLex(s[1]) # word \/ s[2] # "[" THEN <<"nomatch">>
    ELSE LET close == {j \in 4..Len(s) : s[j] = "]"}
         IN  IF close = {} THEN <<"nomatch">>
             ELSE SubSeq(s, 3, SetMax(close) - 1)

LIST_PATTERN_group1(s) == BRACKET_PATTERN_group1("list", s)

SET_PATTERN_group1(s) == BRACKET_PATTERN_group1("set", s)

RECURSIVE _parse_single(_)
_parse_single(type_str0) ==
    LET type_str == strip_chars(strip(type_str0), {Backtick})
        dv == DICT_PATTERN_group2(type_str)
        lv == LIST_PATTERN_group1(type_str)
        sv == SET_PATTERN_group1(type_str)
    IN  IF dv # <<"nomatch">> THEN
            LET value_type == _parse_single(strip(dv))
            IN  [type |-> "object",
                 additionalProperties |->
                     IF value_type # EmptyFrag THEN value_type ELSE JsonTrue]
        ELSE IF lv # <<"nomatch">> THEN
            LET item_type == _parse_single(strip(lv))
            IN  IF item_type # EmptyFrag
                THEN [type |-> "array", items |-> item_type]
                ELSE [type |-> "array"]
        ELSE IF sv # <<"nomatch">> THEN
            LET item_type == _parse_single(strip(sv))
            IN  IF item_type # EmptyFrag
                THEN [type |-> "array", uniqueItems |-> TRUE,
                      items |-> item_type]
                ELSE [type |-> "array", uniqueItems |-> TRUE]
        ELSE IF Len(type_str) = 1 /\ LowerLex(type_str[1]) \in DOMAIN BASIC_TYPES
            THEN BASIC_TYPES[LowerLex(type_str[1])]
            ELSE EmptyFrag

\* _parse_union with the singleton case lost: one survivor is wrapped too
_parse_union_always_wraps(type_str) ==
    LET parts == split_on(type_str, "|")
        parsed == [i \in 1..Len(parts) |-> _parse_single(strip(parts[i]))]
        any_of == SelectSeq(parsed, LAMBDA f : f # EmptyFrag)
    IN  IF Len(any_of) >= 1 THEN [anyOf |-> any_of] ELSE EmptyFrag

_parse_union(type_str) ==
    LET parts == split_on(type_str, "|")
        parsed == [i \in 1..Len(parts) |-> _parse_single(strip(parts[i]))]
        any_of == SelectSeq(parsed, LAMBDA f : f # EmptyFrag)
    IN  IF Len(any_of) = 1 THEN any_of[1]
        ELSE IF Len(any_of) > 1 THEN [anyOf |-> any_of]
        ELSE EmptyFrag

\* parse with the union test moved ahead of the "One of:" test
TypeParser_parse_splits_first(type_str0) ==
    LET type_str == strip(type_str0)
        span == ONE_OF_PATTERN_span(type_str)
        values == IF span = <<0, 0>> THEN <<>>
                  ELSE findall_quoted(SubSeq(type_str, span[1] + 1, span[2] - 1))
    IN  IF \E i \in 1..Len(type_str) : type_str[i] = "|"
            THEN _parse_union(type_str)
        ELSE IF values # <<>> THEN [type |-> "string", enum |-> values]
        ELSE _parse_single(type_str)

TypeParser_parse(type_str0) ==
    LET type_str == strip(type_str0)
        span == ONE_OF_PATTERN_span(type_str)
        values == IF span = <<0, 0>> THEN <<>>
                  ELSE findall_quoted(SubSeq(type_str, span[1] + 1, span[2] - 1))
    IN  IF values # <<>> THEN [type |-> "string", enum |-> values]
        ELSE IF \E i \in 1..Len(type_str) : type_str[i] = "|"
            THEN _parse_union(type_str)
            ELSE _parse_single(type_str)

----------------------------------------------------------------------------
(* Ordering of text: sorted() *)

\* the lexemes in code-point order of the text they stand for
LexOrder ==
    <<"\t", " ", "'", ",", ".", "NAME", "Value", "[", "]", "a", "amd64",
      "arm64", "armhf", "b", "bar", "baz", "d", "foo", "i386", "name",
      "ppc64el", "riscv64", "s390x", "value", "values", "|">>

LexRank(l) == CHOOSE i \in 1..Len(LexOrder) : LexOrder[i] = l

\* s < t for two texts, as Python compares str
RECURSIVE TextLess(_, _)
TextLess(s, t) ==
    IF t = <<>> THEN FALSE
    ELSE IF s = <<>> THEN TRUE
    ELSE IF s[1] = t[1] THEN TextLess(Tail(s), Tail(t))
    ELSE LexRank(s[1]) < LexRank(t[1])

\* list.insert at the place sorted() gives v among the sorted list xs
RECURSIVE insert_sorted(_, _)
insert_sorted(xs, v) ==
    IF xs = <<>> THEN <<v>>
    ELSE IF TextLess(v, xs[1]) THEN <<v>> \o xs
    ELSE <<xs[1]>> \o insert_sorted(Tail(xs), v)

\* sorted(xs) for a list of texts
RECURSIVE sorted(_)
sorted(xs) ==
    IF xs = <<>> THEN <<>>
    ELSE insert_sorted(sorted(SubSeq(xs, 1, Len(xs) - 1)), xs[Len(xs)])

\* x in xs
Contains(xs, x) == \E i \in 1..Len(xs) : xs[i] = x

----------------------------------------------------------------------------
(* PropertyExtractor._extract_table_values *)

\* str.split()[0]: the text up to the first whitespace, of a text that
\* does not start with whitespace
first_word(s) ==
    LET ws == {i \in 1..Len(s) : s[i] \in Whitespace}
    IN  IF ws = {} THEN s ELSE SubSeq(s, 1, SetMin(ws) - 1)

skip_values == {<<"value">>, <<"values">>, <<"name">>, <<>>}

\* the loop body with the membership test lost: every candidate is appended
table_row_step_keeps_duplicates(values, cells) ==
    IF cells = <<>> THEN values
    ELSE LET value == cells[1]
         IN  IF value # <<>> /\ lower(value) \notin skip_values
             THEN Append(values, IF Contains(value, " ")
                                 THEN first_word(value) ELSE value)
             ELSE values

\* the body of the loop over the rows: values after the row
table_row_step(values, cells) ==
    IF cells = <<>> THEN values
    ELSE LET value == cells[1]
         IN  IF value # <<>> /\ lower(value) \notin skip_values
             THEN LET clean_value == IF Contains(value, " ")
                                     THEN first_word(value) ELSE value
                  IN  IF ~Contains(values, clean_value)
                      THEN Append(values, clean_value) ELSE values
             ELSE values

RECURSIVE table_rows_loop(_, _)
table_rows_loop(values, rows) ==
    IF rows = <<>> THEN values
    ELSE table_rows_loop(table_row_step(values, rows[1]), Tail(rows))

_extract_table_values(rows) == sorted(table_rows_loop(<<>>, rows))

----------------------------------------------------------------------------
(* PropertySchema *)

\* number of characters of a long description that are kept
DescKeep == 497
\* longest description that is stored whole
DescLimit == 500

\* PropertySchema(name=name): the other fields at their defaults
PropertySchema(name) ==
    [name |-> name, type_schema |-> EmptyFrag, description |-> <<>>,
     enum_values |-> <<>>]

\* None, where a PropertySchema may stand
NoProp == [none |-> TRUE]

\* PropertySchema.to_json_schema
to_json_schema(self) ==
    LET schema == IF self.enum_values # <<>>
                      THEN [type |-> "string", enum |-> self.enum_values]
                  ELSE IF self.type_schema # EmptyFrag THEN self.type_schema
                  ELSE [type |-> "string"]
    IN  IF self.description # <<>>
        THEN [description |-> self.description] @@ schema
        ELSE schema

----------------------------------------------------------------------------
(* PropertyExtractor._parse_property_content *)

\* sep.join(texts)
RECURSIVE join(_, _)
join(texts, sep) ==
    IF texts = <<>> THEN <<>>
    ELSE IF Len(texts) = 1 THEN texts[1]
    ELSE texts[1] \o sep \o join(Tail(texts), sep)

\* " ".join(c.get_text(strip=True) for c in codes if c.get_text(strip=True))
join_codes(codes) == join(SelectSeq(codes, LAMBDA c : c # <<>>), <<" ">>)

\* re.sub(r"\s+", " ", s): each run of whitespace becomes one space
collapse_ws(s) ==
    LET marked == [i \in 1..Len(s) |->
                      [lex |-> IF s[i] \in Whitespace THEN " " ELSE s[i],
                       drop |-> /\ s[i] \in Whitespace
                                /\ i > 1
                                /\ s[i - 1] \in Whitespace]]
        kept == SelectSeq(marked, LAMBDA m : ~m.drop)
    IN  [i \in 1..Len(kept) |-> kept[i].lex]

\* the cut made at the limit itself, with nothing to mark it
paragraph_desc_cuts_at_limit(text) ==
    IF Len(text) > DescLimit THEN SubSeq(text, 1, DescLimit) ELSE text

\* text[:497] + "..." if len(text) > 500 else text   (a paragraph's text)
paragraph_desc(text) ==
    IF Len(text) > DescLimit
    THEN SubSeq(text, 1, DescKeep) \o <<".", ".", ".">>
    ELSE text

\* desc[:497] + "..." if len(desc) > 500 else desc   (a <dd>'s text)
definition_desc(desc) ==
    IF Len(desc) > DescLimit
    THEN SubSeq(desc, 1, DescKeep) \o <<".", ".", ".">>
    ELSE desc

\* one <dt> of _process_definition_list: pr after it
definition_term_step(pr, item) ==
    LET label == lower(item.dt)
    IN  IF ~item.has_dd THEN pr
        ELSE IF label = <<"type">> /\ pr.type_schema = EmptyFrag THEN
            LET type_text == IF item.codes # <<>> THEN join_codes(item.codes)
                             ELSE join(item.strings, <<>>)
            IN  IF type_text # <<>>
                THEN [pr EXCEPT !.type_schema = TypeParser_parse(type_text)]
                ELSE pr
        ELSE IF label = <<"description">> /\ pr.description = <<>> THEN
            [pr EXCEPT !.description =
                definition_desc(collapse_ws(join(item.strings, <<" ">>)))]
        ELSE pr

RECURSIVE _process_definition_list(_, _)
_process_definition_list(items, pr) ==
    IF items = <<>> THEN pr
    ELSE _process_definition_list(Tail(items),
                                  definition_term_step(pr, items[1]))

\* table_values_step taking every non-empty list of values: the last wins
table_values_step_last_wins(pr, rows) ==
    LET enum_values == _extract_table_values(rows)
    IN  IF enum_values # <<>>
        THEN [pr EXCEPT !.enum_values = enum_values]
        ELSE pr

\* a table's values go to pr.enum_values when they are the first non-empty
table_values_step(pr, rows) ==
    LET enum_values == _extract_table_values(rows)
    IN  IF enum_values # <<>> /\ pr.enum_values = <<>>
        THEN [pr EXCEPT !.enum_values = enum_values]
        ELSE pr

\* walk_node with a "Description" label that does not end the type section
walk_node_type_stays_open(w, current) ==
    IF current.name = "p" THEN
        IF current.has_strong THEN
            LET label == lower(current.strong)
            IN  IF label = <<"type">> THEN
                    [w EXCEPT !.expecting_type = TRUE, !.expecting_desc = FALSE]
                ELSE IF label = <<"description">> THEN
                    [w EXCEPT !.expecting_type = FALSE, !.expecting_desc = TRUE]
                ELSE IF label = <<"values">> THEN
                    [w EXCEPT !.expecting_type = FALSE, !.expecting_desc = FALSE]
                ELSE w
        ELSE
            LET text == current.text
            IN  IF w.expecting_type /\ ~w.found_type THEN
                    LET type_text ==
                            IF text # <<>> /\ LowerLex(text[1]) = "one of:"
                                THEN text
                            ELSE IF current.codes # <<>>
                                THEN join_codes(current.codes)
                            ELSE text
                    IN  IF type_text # <<>>
                        THEN [w EXCEPT
                                !.prop.type_schema = TypeParser_parse(type_text),
                                !.found_type = TRUE,
                                !.expecting_type = FALSE]
                        ELSE w
                ELSE IF w.expecting_desc /\ ~w.found_desc THEN
                    LET desc == paragraph_desc(text)
                    IN  IF desc # <<>>
                        THEN [w EXCEPT !.prop.description = desc,
                                       !.found_desc = TRUE,
                                       !.expecting_desc = FALSE]
                        ELSE w
                ELSE w
    ELSE IF current.name = "table" THEN
        [w EXCEPT !.prop = table_values_step(w.prop, current.rows)]
    ELSE IF current.name = "div" THEN
        IF current.has_table
        THEN [w EXCEPT !.prop = table_values_step(w.prop, current.rows)]
        ELSE w
    ELSE IF current.name = "dl" THEN
        [w EXCEPT !.prop = _process_definition_list(current.items, w.prop)]
    ELSE w

\* walk_node with a "Values" label that leaves the flags as they are
walk_node_values_keeps_flags(w, current) ==
    IF current.name = "p" THEN
        IF current.has_strong THEN
            LET label == lower(current.strong)
            IN  IF label = <<"type">> THEN
                    [w EXCEPT !.expecting_type = TRUE, !.expecting_desc = FALSE]
                ELSE IF label = <<"description">> THEN
                    [w EXCEPT !.expecting_type = FALSE, !.expecting_desc = TRUE,
                              !.found_type = TRUE]
                ELSE IF label = <<"values">> THEN w
                ELSE w
        ELSE
            LET text == current.text
            IN  IF w.expecting_type /\ ~w.found_type THEN
                    LET type_text ==
                            IF text # <<>> /\ LowerLex(text[1]) = "one of:"
                                THEN text
                            ELSE IF current.codes # <<>>
                                THEN join_codes(current.codes)
                            ELSE text
                    IN  IF type_text # <<>>
                        THEN [w EXCEPT
                                !.prop.type_schema = TypeParser_parse(type_text),
                                !.found_type = TRUE,
                                !.expecting_type = FALSE]
                        ELSE w
                ELSE IF w.expecting_desc /\ ~w.found_desc THEN
                    LET desc == paragraph_desc(text)
                    IN  IF desc # <<>>
                        THEN [w EXCEPT !.prop.description = desc,
                                       !.found_desc = TRUE,
                                       !.expecting_desc = FALSE]
                        ELSE w
                ELSE w
    ELSE IF current.name = "table" THEN
        [w EXCEPT !.prop = table_values_step(w.prop, current.rows)]
    ELSE IF current.name = "div" THEN
        IF current.has_table
        THEN [w EXCEPT !.prop = table_values_step(w.prop, current.rows)]
        ELSE w
    ELSE IF current.name = "dl" THEN
        [w EXCEPT !.prop = _process_definition_list(current.items, w.prop)]
    ELSE w

\* walk_node with a type capture that does not set found_type
walk_node_type_not_found(w, current) ==
    IF current.name = "p" THEN
        IF current.has_strong THEN
            LET label == lower(current.strong)
            IN  IF label = <<"type">> THEN
                    [w EXCEPT !.expecting_type = TRUE, !.expecting_desc = FALSE]
                ELSE IF label = <<"description">> THEN
                    [w EXCEPT !.expecting_type = FALSE, !.expecting_desc = TRUE,
                              !.found_type = TRUE]
                ELSE IF label = <<"values">> THEN
                    [w EXCEPT !.expecting_type = FALSE, !.expecting_desc = FALSE]
                ELSE w
        ELSE
            LET text == current.text
            IN  IF w.expecting_type /\ ~w.found_type THEN
                    LET type_text ==
                            IF text # <<>> /\ LowerLex(text[1]) = "one of:"
                                THEN text
                            ELSE IF current.codes # <<>>
                                THEN join_codes(current.codes)
                            ELSE text
                    IN  IF type_text # <<>>
                        THEN [w EXCEPT
                                !.prop.type_schema = TypeParser_parse(type_text),
                                !.expecting_type = FALSE]
                        ELSE w
                ELSE IF w.expecting_desc /\ ~w.found_desc THEN
                    LET desc == paragraph_desc(text)
                    IN  IF desc # <<>>
                        THEN [w EXCEPT !.prop.description = desc,
                                       !.found_desc = TRUE,
                                       !.expecting_desc = FALSE]
                        ELSE w
                ELSE w
    ELSE IF current.name = "table" THEN
        [w EXCEPT !.prop = table_values_step(w.prop, current.rows)]
    ELSE IF current.name = "div" THEN
        IF current.has_table
        THEN [w EXCEPT !.prop = table_values_step(w.prop, current.rows)]
        ELSE w
    ELSE IF current.name = "dl" THEN
        [w EXCEPT !.prop = _process_definition_list(current.items, w.prop)]
    ELSE w

\* One turn of the while loop on a node that is not a heading.  w holds the
\* locals expecting_type, expecting_desc, found_type, found_desc and pr.
walk_node(w, current) ==
    IF current.name = "p" THEN
        IF current.has_strong THEN
            LET label == lower(current.strong)
            IN  IF label = <<"type">> THEN
                    [w EXCEPT !.expecting_type = TRUE, !.expecting_desc = FALSE]
                ELSE IF label = <<"description">> THEN
                    [w EXCEPT !.expecting_type = FALSE, !.expecting_desc = TRUE,
                              !.found_type = TRUE]
                ELSE IF label = <<"values">> THEN
                    [w EXCEPT !.expecting_type = FALSE, !.expecting_desc = FALSE]
                ELSE w
        ELSE
            LET text == current.text
            IN  IF w.expecting_type /\ ~w.found_type THEN
                    LET type_text ==
                            IF text # <<>> /\ LowerLex(text[1]) = "one of:"
                                THEN text
                            ELSE IF current.codes # <<>>
                                THEN join_codes(current.codes)
                            ELSE text
                    IN  IF type_text # <<>>
                        THEN [w EXCEPT
                                !.prop.type_schema = TypeParser_parse(type_text),
                                !.found_type = TRUE,
                                !.expecting_type = FALSE]
                        ELSE w
                ELSE IF w.expecting_desc /\ ~w.found_desc THEN
                    LET desc == paragraph_desc(text)
                    IN  IF desc # <<>>
                        THEN [w EXCEPT !.prop.description = desc,
                                       !.found_desc = TRUE,
                                       !.expecting_desc = FALSE]
                        ELSE w
                ELSE w
    ELSE IF current.name = "table" THEN
        [w EXCEPT !.prop = table_values_step(w.prop, current.rows)]
    ELSE IF current.name = "div" THEN
        IF current.has_table
        THEN [w EXCEPT !.prop = table_values_step(w.prop, current.rows)]
        ELSE w
    ELSE IF current.name = "dl" THEN
        [w EXCEPT !.prop = _process_definition_list(current.items, w.prop)]
    ELSE w

\* the state of the locals when the loop starts
walk_start(pr) ==
    [expecting_type |-> FALSE, expecting_desc |-> FALSE,
     found_type |-> FALSE, found_desc |-> FALSE, prop |-> pr]

\* after the loop, with the default lost
ensure_type_never(pr) == pr

\* after the loop: "Ensure type is set"
ensure_type(pr) ==
    IF pr.type_schema = EmptyFrag /\ pr.enum_values = <<>>
    THEN [pr EXCEPT !.type_schema = [type |-> "string"]]
    ELSE pr

\* _parse_property_content on the nodes between a heading and the next one
RECURSIVE walk_nodes(_, _)
walk_nodes(w, nodes) ==
    IF nodes = <<>> THEN w ELSE walk_nodes(walk_node(w, nodes[1]), Tail(nodes))

_parse_property_content(nodes, pr) ==
    ensure_type(walk_nodes(walk_start(pr), nodes).prop)

----------------------------------------------------------------------------
(* PropertyExtractor.extract_all *)

\* the pilcrow of a heading's permalink, which a TLA+ string cannot hold
Pilcrow == "PILCROW"

SKIP_HEADERS ==
    {<<"top-level keys">>, <<"platform keys">>, <<"architecture keys">>,
     <<"app keys">>, <<"part keys">>, <<"socket keys">>, <<"hook keys">>,
     <<"component keys">>, <<"content plug keys">>,
     <<"your tracker settings">>, <<"additional links">>,
     <<"permissions keys">>}

SKIP_KEYWORDS == {"example", "see also", "note"}

\* the keywords of SKIP_KEYWORDS that occur in the lowered text of a lexeme
KeywordsIn(l) ==
    CASE l \in {"Example", "example"} -> {"example"}
      [] l = "See also" -> {"see also"}
      [] l \in {"Note", "release-notes"} -> {"note"}
      [] OTHER -> {}

\* heading.get_text(strip=True).replace(pilcrow, "").strip()
heading_text_of(raw) == strip(SelectSeq(strip(raw), LAMBDA l : l # Pilcrow))

\* str.lower() of a heading's text: the titles of SKIP_HEADERS are one lexeme
LowerHeading(l) ==
    CASE l = "App keys" -> "app keys"
      [] l = "Part keys" -> "part keys"
      [] OTHER -> LowerLex(l)

\* _extract_property returns None for this heading text
is_skipped(heading_text) ==
    \/ heading_text = <<>>
    \/ [i \in 1..Len(heading_text) |-> LowerHeading(heading_text[i])]
           \in SKIP_HEADERS
    \/ \E i \in 1..Len(heading_text) :
           KeywordsIn(heading_text[i]) \cap SKIP_KEYWORDS # {}

\* a present key keeping the value it has
dict_set_keeps_first(d, key, value) ==
    IF \E i \in 1..Len(d) : d[i].name = key THEN d ELSE Append(d, value)

\* d[key] = value on a dict kept as the list of its items in insertion
\* order: a present key keeps its place and gets the value
dict_set(d, key, value) ==
    IF \E i \in 1..Len(d) : d[i].name = key
    THEN [i \in 1..Len(d) |-> IF d[i].name = key THEN value ELSE d[i]]
    ELSE Append(d, value)

----------------------------------------------------------------------------
(* SchemaBuilder *)

\* A dict is the list of its items in insertion order, an item being a
\* record with the key as name: [name, schema] in the buckets and in $defs.

\* key in d
has_key(d, key) == \E i \in 1..Len(d) : d[i].name = key

\* d[key], of a key that is in d
dict_get(d, key) == d[CHOOSE i \in 1..Len(d) : d[i].name = key].schema

\* frag[key] = value on a fragment
set_key(frag, key, value) ==
    [k \in DOMAIN frag \cup {key} |-> IF k = key THEN value ELSE frag[k]]

\* PREFIX_MAPPINGS with the rule of apps.<app-name>. listed first, ahead of
\* the longer prefix that extends it
PREFIX_MAPPINGS_short_first ==
    <<[prefix |-> <<"apps", ".", "<app-name>", ".">>, category |-> "apps"],
      [prefix |-> <<"apps", ".", "<app-name>", ".", "sockets", ".",
                    "<socket-name>", ".">>, category |-> "sockets"],
      [prefix |-> <<"sockets", ".", "<socket-name>", ".">>,
       category |-> "sockets"],
      [prefix |-> <<"parts", ".", "<part-name>", ".", "permissions", ".",
                    "<permission>", ".">>, category |-> "permissions"],
      [prefix |-> <<"parts", ".", "<part-name>", ".">>, category |-> "parts"],
      [prefix |-> <<"platforms", ".", "<platform-name>", ".">>,
       category |-> "platforms"],
      [prefix |-> <<"architectures", ".", "<architecture>", ".">>,
       category |-> "architectures"],
      [prefix |-> <<"hooks", ".", "<hook-type>", ".">>, category |-> "hooks"],
      [prefix |-> <<"components", ".", "<component-name>", ".", "hooks", ".",
                    "<hook-type>", ".">>, category |-> "None"],
      [prefix |-> <<"components", ".", "<component-name>", ".">>,
       category |-> "components"],
      [prefix |-> <<"plugs", ".", "<plug-name>", ".">>, category |-> "plugs"],
      [prefix |-> <<"slots", ".", "<slot-name>", ".">>, category |-> "slots"],
      [prefix |-> <<"lint", ".">>, category |-> "lint"]>>

\* SchemaBuilder.PREFIX_MAPPINGS; the category None is "None"
PREFIX_MAPPINGS ==
    <<[prefix |-> <<"apps", ".", "<app-name>", ".", "sockets", ".",
                    "<socket-name>", ".">>, category |-> "sockets"],
      [prefix |-> <<"sockets", ".", "<socket-name>", ".">>,
       category |-> "sockets"],
      [prefix |-> <<"apps", ".", "<app-name>", ".">>, category |-> "apps"],
      [prefix |-> <<"parts", ".", "<part-name>", ".", "permissions", ".",
                    "<permission>", ".">>, category |-> "permissions"],
      [prefix |-> <<"parts", ".", "<part-name>", ".">>, category |-> "parts"],
      [prefix |-> <<"platforms", ".", "<platform-name>", ".">>,
       category |-> "platforms"],
      [prefix |-> <<"architectures", ".", "<architecture>", ".">>,
       category |-> "architectures"],
      [prefix |-> <<"hooks", ".", "<hook-type>", ".">>, category |-> "hooks"],
      [prefix |-> <<"components", ".", "<component-name>", ".", "hooks", ".",
                    "<hook-type>", ".">>, category |-> "None"],
      [prefix |-> <<"components", ".", "<component-name>", ".">>,
       category |-> "components"],
      [prefix |-> <<"plugs", ".", "<plug-name>", ".">>, category |-> "plugs"],
      [prefix |-> <<"slots", ".", "<slot-name>", ".">>, category |-> "slots"],
      [prefix |-> <<"lint", ".">>, category |-> "lint"]>>

\* path.startswith(prefix)
startswith(path, prefix) ==
    Len(path) >= Len(prefix) /\ SubSeq(path, 1, Len(prefix)) = prefix

\* the lexemes that start with "<": the placeholder segments
Placeholders ==
    {"<app-name>", "<socket-name>", "<part-name>", "<permission>",
     "<platform-name>", "<architecture>", "<hook-type>", "<component-name>",
     "<plug-name>", "<slot-name>", "<name>"}

\* ".<" in text
dot_lt_in(text) ==
    \E i \in 1..(Len(text) - 1) :
        text[i] = "." /\ text[i + 1] \in Placeholders

\* the rules of PREFIX_MAPPINGS whose prefix path starts with
matching_rules(path) ==
    {i \in 1..Len(PREFIX_MAPPINGS) :
        startswith(path, PREFIX_MAPPINGS[i].prefix)}

\* _get_category taking the last rule that matches instead of the first
_get_category_last_rule(path) ==
    IF matching_rules(path) # {}
    THEN PREFIX_MAPPINGS[SetMax(matching_rules(path))].category
    ELSE IF ~dot_lt_in(path) /\ ~\E i \in 1..Len(path) : path[i] \in Placeholders
    THEN "top_level"
    ELSE "None"

_get_category(path) ==
    IF matching_rules(path) # {}
    THEN PREFIX_MAPPINGS[SetMin(matching_rules(path))].category
    ELSE IF ~dot_lt_in(path) /\ ~\E i \in 1..Len(path) : path[i] \in Placeholders
    THEN "top_level"
    ELSE "None"

_strip_prefix(path) ==
    IF matching_rules(path) # {}
    THEN SubSeq(path,
                Len(PREFIX_MAPPINGS[SetMin(matching_rules(path))].prefix) + 1,
                Len(path))
    ELSE path

\* self.categorized as __init__ leaves it
EmptyCategorized ==
    [c \in {"top_level", "apps", "parts", "platforms", "architectures",
            "sockets", "hooks", "components", "plugs", "slots", "permissions",
            "lint"} |-> <<>>]

\* _categorize_properties on the items props of self.properties
RECURSIVE _categorize_properties(_, _)
_categorize_properties(props, categorized) ==
    IF props = <<>> THEN categorized
    ELSE LET category == _get_category(props[1].name)
             name == _strip_prefix(props[1].name)
         IN  _categorize_properties(
                 Tail(props),
                 IF category # "None" /\ ~dot_lt_in(name)
                 THEN [categorized EXCEPT ![category] =
                          dict_set(@, name,
                                   [name |-> name,
                                    schema |-> to_json_schema(props[1])])]
                 ELSE categorized)

\* SchemaDefinition(...).to_json_schema()
SchemaDefinition(description, props, additional_properties) ==
    [type |-> "object", description |-> description, properties |-> props,
     additionalProperties |-> additional_properties]

\* {"$ref": "#/$defs/<def_name>"}
Ref(def_name) == "$ref" :> <<"#/$defs/", def_name>>

\* the list definitions of _build_definitions
DEFINITIONS ==
    <<[name |-> "Socket", category |-> "sockets", allow_additional |-> FALSE,
       description |-> <<"Socket configuration for app activation">>],
      [name |-> "Hook", category |-> "hooks", allow_additional |-> FALSE,
       description |-> <<"Hook configuration">>],
      [name |-> "Permissions", category |-> "permissions",
       allow_additional |-> FALSE,
       description |-> <<"File permission settings">>],
      [name |-> "Lint", category |-> "lint", allow_additional |-> FALSE,
       description |-> <<"Linting configuration">>],
      [name |-> "Platform", category |-> "platforms",
       allow_additional |-> FALSE,
       description |-> <<"Platform/architecture configuration">>],
      [name |-> "Architecture", category |-> "architectures",
       allow_additional |-> FALSE,
       description |-> <<"Architecture configuration">>],
      [name |-> "ContentPlug", category |-> "plugs",
       allow_additional |-> TRUE,
       description |-> <<"Content interface plug definition">>]>>

\* definition_with_ref setting the reference field whether or not the
\* definition it refers to was built
definition_always_refers(defs, bucket, ref, key, frag, name, description, extra) ==
    IF bucket = <<>> THEN <<>>
    ELSE <<[name |-> name,
            schema |-> SchemaDefinition(
                description,
                dict_set(bucket, key, [name |-> key, schema |-> frag]),
                extra)]>>

\* definition_with_ref building the definition only when the definition it
\* refers to was built
definition_needs_ref(defs, bucket, ref, key, frag, name, description, extra) ==
    IF bucket = <<>> \/ ~has_key(defs, ref) THEN <<>>
    ELSE <<[name |-> name,
            schema |-> SchemaDefinition(
                description,
                dict_set(bucket, key, [name |-> key, schema |-> frag]),
                extra)]>>

\* the Component, App and Part definitions: the bucket's copy, with the
\* reference field set when the definition it refers to was built
definition_with_ref(defs, bucket, ref, key, frag, name, description, extra) ==
    IF bucket = <<>> THEN <<>>
    ELSE <<[name |-> name,
            schema |-> SchemaDefinition(
                description,
                IF has_key(defs, ref)
                THEN dict_set(bucket, key, [name |-> key, schema |-> frag])
                ELSE bucket,
                extra)]>>

_build_definitions(categorized) ==
    LET built == SelectSeq(DEFINITIONS,
                           LAMBDA d : categorized[d.category] # <<>>)
        defs == [i \in 1..Len(built) |->
                    [name |-> built[i].name,
                     schema |-> SchemaDefinition(
                                    built[i].description,
                                    categorized[built[i].category],
                                    built[i].allow_additional)]]
    IN  defs
        \o definition_with_ref(
               defs, categorized.components, "Hook", <<"hooks">>,
               [type |-> "object",
                description |-> <<"Component lifecycle hooks">>,
                additionalProperties |-> Ref("Hook")],
               "Component", <<"Snap component definition">>, FALSE)
        \o definition_with_ref(
               defs, categorized.apps, "Socket", <<"sockets">>,
               [type |-> "object",
                description |-> <<"Socket activation configuration">>,
                additionalProperties |-> Ref("Socket")],
               "App", <<"Application definition">>, FALSE)
        \o definition_with_ref(
               defs, categorized.parts, "Permissions", <<"permissions">>,
               [type |-> "array",
                description |-> <<"File permission settings">>,
                items |-> Ref("Permissions")],
               "Part", <<"Part definition for building snap components">>,
               TRUE)

\* top[key] = schema
top_set(top, key, schema) == dict_set(top, key, [name |-> key, schema |-> schema])

\* the list ref_mappings of _build_top_level; rstrip is key.rstrip("s")
REF_MAPPINGS ==
    <<[key |-> "apps", rstrip |-> "app", def_name |-> "App",
       description |-> <<"Application definitions">>],
      [key |-> "parts", rstrip |-> "part", def_name |-> "Part",
       description |-> <<"Part definitions for building the snap">>],
      [key |-> "hooks", rstrip |-> "hook", def_name |-> "Hook",
       description |-> <<"Lifecycle hooks">>],
      [key |-> "components", rstrip |-> "component", def_name |-> "Component",
       description |-> <<"Snap components">>]>>

\* the loop over ref_mappings, from its i-th turn on
RECURSIVE ref_mappings_loop(_, _, _, _)
ref_mappings_loop(top, categorized, defs, i) ==
    IF i > Len(REF_MAPPINGS) THEN top
    ELSE LET m == REF_MAPPINGS[i]
             bucket == IF m.rstrip \in DOMAIN categorized
                       THEN categorized[m.rstrip] ELSE <<>>
         IN  ref_mappings_loop(
                 IF has_key(defs, m.def_name) \/ bucket # <<>>
                 THEN top_set(top, <<m.key>>,
                              [type |-> "object",
                               description |-> m.description,
                               additionalProperties |->
                                   IF has_key(defs, m.def_name)
                                   THEN Ref(m.def_name)
                                   ELSE [type |-> "object",
                                         additionalProperties |-> TRUE]])
                 ELSE top,
                 categorized, defs, i + 1)

_build_top_level(categorized, defs) ==
    LET refs == ref_mappings_loop(categorized.top_level, categorized, defs, 1)
        platforms ==
            IF has_key(defs, "Platform") \/ categorized.platforms # <<>>
            THEN top_set(refs, <<"platforms">>,
                     [type |-> "object",
                      description |-> <<"Platform/architecture configurations">>,
                      additionalProperties |->
                          [anyOf |-> <<IF has_key(defs, "Platform")
                                       THEN Ref("Platform")
                                       ELSE [type |-> "object"],
                                       [type |-> "null"]>>]])
            ELSE refs
        architectures ==
            IF has_key(defs, "Architecture") \/ categorized.architectures # <<>>
            THEN top_set(platforms, <<"architectures">>,
                     [type |-> "array",
                      description |->
                          <<"Architecture configurations (for core22 and older)">>,
                      items |->
                          [anyOf |-> <<[type |-> "string"],
                                       IF has_key(defs, "Architecture")
                                       THEN Ref("Architecture")
                                       ELSE [type |-> "object"]>>]])
            ELSE platforms
        interface(top, key) ==
            IF ~has_key(top, <<key>>)
            THEN top_set(top, <<key>>,
                     [type |-> "object",
                      description |-> <<"Interface ", key>>,
                      additionalProperties |-> TRUE])
            ELSE top
        plugs_slots == interface(interface(architectures, "plugs"), "slots")
    IN  IF has_key(defs, "Lint")
        THEN top_set(plugs_slots, <<"lint">>, Ref("Lint"))
        ELSE IF ~has_key(plugs_slots, <<"lint">>)
        THEN top_set(plugs_slots, <<"lint">>,
                     [type |-> "object", additionalProperties |-> TRUE])
        ELSE plugs_slots

\* SchemaBuilder(properties, urls.main).build(): the two parts of the schema
\* that depend on the properties; "$defs" is a key of it when defs is not
\* empty
build(props) ==
    LET categorized == _categorize_properties(props, EmptyCategorized)
        defs == _build_definitions(categorized)
    IN  [properties |-> _build_top_level(categorized, defs), defs |-> defs]

----------------------------------------------------------------------------
(* SchemaEnhancer *)

\* schema.get("$defs", {}).get(def_name, {}).get("properties", {})
def_properties(schema, def_name) ==
    IF has_key(schema.defs, def_name)
    THEN dict_get(schema.defs, def_name).properties
    ELSE <<>>

\* schema["$defs"][def_name]["properties"][key] = frag
def_property_set(schema, def_name, key, frag) ==
    LET def == dict_get(schema.defs, def_name)
    IN  [schema EXCEPT !.defs =
            top_set(schema.defs, def_name,
                    [def EXCEPT !.properties =
                        top_set(def.properties, key, frag)])]

\* frag.get("type") == "array"
is_array(frag) == "type" \in DOMAIN frag /\ frag.type = "array"

_enhance_plugins(schema, plugins) ==
    IF plugins = <<>> THEN schema
    ELSE LET props == def_properties(schema, "Part")
         IN  IF has_key(props, <<"plugin">>)
             THEN def_property_set(schema, "Part", <<"plugin">>,
                      set_key(dict_get(props, <<"plugin">>), "enum", plugins))
             ELSE schema

\* _enhance_bases setting build-base whether or not the schema has it
_enhance_bases_adds_build_base(schema, bases) ==
    IF bases = <<>> THEN schema
    ELSE LET props == schema.properties
             base == IF has_key(props, <<"base">>)
                     THEN top_set(props, <<"base">>,
                              set_key(dict_get(props, <<"base">>), "enum",
                                      bases))
                     ELSE props
             build_bases == bases \o (IF ~Contains(bases, <<"devel">>)
                                      THEN <<<<"devel">>>> ELSE <<>>)
         IN  [schema EXCEPT !.properties =
                 top_set(base, <<"build-base">>,
                     set_key(IF has_key(base, <<"build-base">>)
                             THEN dict_get(base, <<"build-base">>)
                             ELSE EmptyFrag,
                             "enum", build_bases))]

_enhance_bases(schema, bases) ==
    IF bases = <<>> THEN schema
    ELSE LET props == schema.properties
             base == IF has_key(props, <<"base">>)
                     THEN top_set(props, <<"base">>,
                              set_key(dict_get(props, <<"base">>), "enum",
                                      bases))
                     ELSE props
             build_bases == bases \o (IF ~Contains(bases, <<"devel">>)
                                      THEN <<<<"devel">>>> ELSE <<>>)
         IN  [schema EXCEPT !.properties =
                 IF has_key(base, <<"build-base">>)
                 THEN top_set(base, <<"build-base">>,
                          set_key(dict_get(base, <<"build-base">>), "enum",
                                  build_bases))
                 ELSE base]

_enhance_extensions(schema, exts) ==
    IF exts = <<>> THEN schema
    ELSE LET app_props == def_properties(schema, "App")
         IN  IF has_key(app_props, <<"extensions">>)
             THEN LET ext_schema == dict_get(app_props, <<"extensions">>)
                  IN  def_property_set(schema, "App", <<"extensions">>,
                          IF is_array(ext_schema)
                          THEN set_key(ext_schema, "items",
                                       [type |-> "string", enum |-> exts])
                          ELSE set_key(ext_schema, "enum", exts))
             ELSE schema

\* the dict plug_slot_value_schema of _enhance_interfaces
plug_slot_value_schema(interfaces) ==
    [anyOf |->
        <<[type |-> "null"], [type |-> "string"],
          [type |-> "object",
           properties |->
               <<[name |-> <<"interface">>,
                  schema |-> [type |-> "string", enum |-> interfaces,
                              description |->
                                  <<"The interface type for this plug/slot.">>]],
                 [name |-> <<"bus">>,
                  schema |-> [type |-> "string",
                              enum |-> <<<<"session">>, <<"system">>>>,
                              description |->
                                  <<"D-Bus bus type (for dbus interface).">>]],
                 [name |-> <<"name">>,
                  schema |-> [type |-> "string",
                              description |->
                                  <<"Well-known D-Bus name or content tag.">>]],
                 [name |-> <<"target">>,
                  schema |-> [type |-> "string",
                              description |->
                                  <<"Target path (for content interface).">>]],
                 [name |-> <<"default-provider">>,
                  schema |-> [type |-> "string",
                              description |->
                                  <<"Default content provider snap.">>]],
                 [name |-> <<"content">>,
                  schema |-> [type |-> "string",
                              description |-> <<"Content tag identifier.">>]]>>,
           additionalProperties |-> TRUE]>>]

\* _enhance_interfaces leaving a plugs or slots field that has enum values
\* as the documentation gave it
_enhance_interfaces_keeps_documented(schema, interfaces) ==
    IF interfaces = <<>> THEN schema
    ELSE LET top(props, key) ==
                 IF /\ has_key(props, <<key>>)
                    /\ "enum" \notin DOMAIN dict_get(props, <<key>>)
                 THEN top_set(props, <<key>>,
                          [type |-> "object",
                           description |->
                               <<"Declares the snap's ", key,
                                 ". Property names are custom identifiers.\n\nAvailable interfaces: ">>
                               \o join(SubSeq(interfaces, 1,
                                              IF Len(interfaces) < 25
                                              THEN Len(interfaces) ELSE 25),
                                       <<", ">>)
                               \o <<"...">>,
                           additionalProperties |->
                               plug_slot_value_schema(interfaces)])
                 ELSE props
             app(sch, key) ==
                 IF /\ has_key(def_properties(sch, "App"), <<key>>)
                    /\ is_array(dict_get(def_properties(sch, "App"), <<key>>))
                 THEN def_property_set(sch, "App", <<key>>,
                          set_key(dict_get(def_properties(sch, "App"), <<key>>),
                                  "items",
                                  [type |-> "string", enum |-> interfaces]))
                 ELSE sch
         IN  app(app([schema EXCEPT !.properties =
                         top(top(@, "plugs"), "slots")],
                     "plugs"),
                 "slots")

_enhance_interfaces(schema, interfaces) ==
    IF interfaces = <<>> THEN schema
    ELSE LET top(props, key) ==
                 IF has_key(props, <<key>>)
                 THEN top_set(props, <<key>>,
                          [type |-> "object",
                           description |->
                               <<"Declares the snap's ", key,
                                 ". Property names are custom identifiers.\n\nAvailable interfaces: ">>
                               \o join(SubSeq(interfaces, 1,
                                              IF Len(interfaces) < 25
                                              THEN Len(interfaces) ELSE 25),
                                       <<", ">>)
                               \o <<"...">>,
                           additionalProperties |->
                               plug_slot_value_schema(interfaces)])
                 ELSE props
             app(sch, key) ==
                 IF /\ has_key(def_properties(sch, "App"), <<key>>)
                    /\ is_array(dict_get(def_properties(sch, "App"), <<key>>))
                 THEN def_property_set(sch, "App", <<key>>,
                          set_key(dict_get(def_properties(sch, "App"), <<key>>),
                                  "items",
                                  [type |-> "string", enum |-> interfaces]))
                 ELSE sch
         IN  app(app([schema EXCEPT !.properties =
                         top(top(@, "plugs"), "slots")],
                     "plugs"),
                 "slots")

VALID_ARCHITECTURES ==
    {<<"amd64">>, <<"i386">>, <<"armhf">>, <<"arm64">>, <<"ppc64el">>,
     <<"s390x">>, <<"riscv64">>}

\* the orders iterating a set may give its elements in: the order of a set
\* of str is not fixed by the language and changes with the hash seed
RECURSIVE Orders(_)
Orders(S) ==
    IF S = {} THEN {<<>>}
    ELSE UNION {{<<x>> \o o : o \in Orders(S \ {x})} : x \in S}

\* the architecture names taken in iteration order
list_of_VALID_ARCHITECTURES(order) == order

\* archs = sorted(VALID_ARCHITECTURES), order being the iteration order
sorted_VALID_ARCHITECTURES(order) == sorted(order)

\* the values archs may take in _enhance_architectures
ArchitectureLists ==
    {sorted_VALID_ARCHITECTURES(order) : order \in Orders(VALID_ARCHITECTURES)}

\* _enhance_architectures after its first statement has set archs
_enhance_architectures(schema, archs) ==
    LET props == schema.properties
        arch_def == dict_get(props, <<"architectures">>)
        strings == {i \in 1..Len(arch_def.items.anyOf) :
                       /\ "type" \in DOMAIN arch_def.items.anyOf[i]
                       /\ arch_def.items.anyOf[i].type = "string"}
        architectures ==
            IF /\ has_key(props, <<"architectures">>)
               /\ "items" \in DOMAIN arch_def
               /\ "anyOf" \in DOMAIN arch_def.items
               /\ strings # {}
            THEN top_set(props, <<"architectures">>,
                     [arch_def EXCEPT !.items.anyOf[SetMin(strings)] =
                         set_key(@, "enum", archs)])
            ELSE props
    IN  [schema EXCEPT !.properties =
            IF has_key(architectures, <<"platforms">>)
            THEN top_set(architectures, <<"platforms">>,
                     set_key(dict_get(architectures, <<"platforms">>),
                             "propertyNames", [enum |-> archs]))
            ELSE architectures]

\* SchemaEnhancer(schema, plugins, bases, extensions, interfaces).enhance()
enhance(schema, lists, archs) ==
    _enhance_architectures(
        _enhance_interfaces(
            _enhance_extensions(
                _enhance_bases(_enhance_plugins(schema, lists.plugins),
                               lists.bases),
                lists.extensions),
            lists.interfaces),
        archs)

----------------------------------------------------------------------------
(* json.dumps and extract_all as functions of their arguments *)

\* json.dumps(schema, indent=2, ensure_ascii=False) + "\n": the keys and
\* values in the order they are written, a fragment standing for its text
dumps(schema) ==
    LET items(d) == [i \in 1..Len(d) |-> <<d[i].name, d[i].schema>>]
        definition(def) ==
            <<<<"type", def.type>>, <<"description", def.description>>,
              <<"properties", items(def.properties)>>,
              <<"additionalProperties", def.additionalProperties>>>>
    IN  <<<<"$schema", "https://json-schema.org/draft/2020-12/schema">>,
          <<"$id", "https://raw.githubusercontent.com/nooreldeensalah/snapcraft-intellisense/main/schemas/snapcraft.json">>,
          <<"title", "Snapcraft YAML Schema">>,
          <<"description", "Schema for snapcraft.yaml. Auto-generated from: https://documentation.ubuntu.com/snapcraft/stable/reference/project-file/snapcraft-yaml/">>,
          <<"type", "object">>,
          <<"properties", items(schema.properties)>>,
          <<"required", <<"name">>>>,
          <<"additionalProperties", TRUE>>>>
        \o (IF schema.defs # <<>>
            THEN <<<<"$defs",
                     [i \in 1..Len(schema.defs) |->
                         <<schema.defs[i].name,
                           definition(schema.defs[i].schema)>>]>>>>
            ELSE <<>>)
        \o <<"\n">>

\* extract_all on a document given as its headings in order, each with the
\* nodes of its scope
RECURSIVE extract_all(_, _)
extract_all(sections, props) ==
    IF sections = <<>> THEN props
    ELSE LET heading_text == heading_text_of(sections[1].heading)
         IN  extract_all(
                 Tail(sections),
                 IF is_skipped(heading_text) THEN props
                 ELSE dict_set(props, heading_text,
                          _parse_property_content(
                              sections[1].nodes,
                              PropertySchema(heading_text))))

----------------------------------------------------------------------------
(* The type strings the parser is run on *)

Atoms == {<<"str">>, <<"int">>, <<"any">>, <<"foo">>, <<"Str">>}

\* what may follow the comma of dict[K, V] and separate quoted literals
Seps == {<<",">>, <<",", " ">>}

\* dict[K<sep>V]
DictStr(k, sep, v) == <<"dict", "[">> \o k \o sep \o v \o <<"]">>

\* the non-union type strings nested at most d deep
RECURSIVE SingleStrs(_)
SingleStrs(d) ==
    IF d = 0 THEN Atoms
    ELSE LET S == SingleStrs(d - 1)
         IN  Atoms
             \cup {DictStr(<<"str">>, sep, v) : sep \in Seps, v \in S}
             \cup {<<"list", "[">> \o v \o <<"]">> : v \in S}
             \cup {<<"set", "[">> \o v \o <<"]">> : v \in S}

\* the branches the generated unions are made of: some parse empty
UnionBranches ==
    Atoms \cup {<<>>, <<Backtick, "int", Backtick>>,
                <<"list", "[", "str", "]">>, <<"list", "[", "foo", "]">>,
                <<"dict", "[", "str", ",", " ", "int", "]">>,
                <<"set", "[", "any", "]">>}

UnionStrs ==
    {a \o bar \o b : a \in UnionBranches, b \in UnionBranches, bar \in {<<"|">>, <<" ", "|", " ">>}}
    \cup {a \o <<" ", "|", " ">> \o b \o <<"|">> \o c :
            a \in Atoms \cup {<<>>}, b \in UnionBranches, c \in Atoms}

\* the literals of the generated "One of:" strings: none holds a quote or "]"
Literals ==
    {<<"a">>, <<"b">>, <<"b", "|", "a">>, <<"a", ",", "b">>, <<"b", " ", "a">>}

LiteralLists == UNION {[1..n -> Literals] : n \in 1..MaxLits}

\* 'l1'<sep>'l2'<sep>...
RECURSIVE JoinQuoted(_, _)
JoinQuoted(lits, sep) ==
    IF Len(lits) = 0 THEN <<>>
    ELSE IF Len(lits) = 1 THEN <<"'">> \o lits[1] \o <<"'">>
    ELSE <<"'">> \o lits[1] \o <<"'">> \o sep \o JoinQuoted(Tail(lits), sep)

\* One of:<ws>[<literals>]
OneOfStr(head, ws, lits, sep) ==
    <<head>> \o ws \o <<"[">> \o JoinQuoted(lits, sep) \o <<"]">>

\* strings that are none of the forms above
OddStrs ==
    {<<>>, <<" ">>, <<" ", "str", " ">>, <<Backtick, "str", Backtick>>,
     <<Backtick, " ", "str", Backtick>>, <<"list", "[", "str">>,
     <<"list", "[", "]">>, <<"list", "[", "str", "]", "]">>,
     <<"dict", "[", "str", "]">>, <<"dict", "[", ",", "int", "]">>,
     <<"dict", "[", "str", ",", " ", "]">>,
     <<"One of:", "[", "]">>, <<"One of:", "[", "a", "]">>,
     <<"One of:", "[", "'", "'", "]">>,
     <<"One of:", " ", "[", "'", "a", "]", "'", "]">>,
     <<"One of:", "[", "a", "]", "|", "str">>,
     <<"One of:", "[", "'", "a", "'", "]", " ", "|", " ", "str">>,
     <<"str", " ", "int">>, <<"list", "[", "str", " ", "|", " ", "int", "]">>}

\* the values V of the generated dict[K, V] strings: every kind of type
\* expression (a single type, a union, an enumeration literal)
DictValues ==
    SingleStrs(MaxDepth - 1)
    \cup {<<"int", " ", "|", " ", "str">>, <<"str", "|", "foo">>,
          <<"foo", " ", "|", " ", "any">>,
          <<"list", "[", "int", "]", " ", "|", " ", "str">>}
    \cup {OneOfStr("One of:", <<" ">>, <<<<"a">>, <<"b">>>>, <<",", " ">>)}

DictKeys == {<<"str">>, <<"foo">>, <<"list", "[", "str", "]">>}

----------------------------------------------------------------------------
(* The tables _extract_table_values is run on *)

\* a row is the list of the texts of its cells, each as get_text(strip=True)
\* gives it (no whitespace at either end); a row may have no cell
TableRowSet ==
    {<<>>,
     <<<<"Value">>, <<"Description">>>>,
     <<<<"foo">>, <<"d", "1">>>>,
     <<<<"bar">>, <<"d", "2">>>>,
     <<<<"foo">>, <<"d", "3">>>>,
     <<<<"NAME">>>>,
     <<<<>>, <<"d", "1">>>>,
     <<<<"foo", " ", "d">>>>,
     <<<<"bar", "\t", "d">>>>,
     <<<<"value", " ", "d">>>>}

Tables == UNION {[1..n -> TableRowSet] : n \in 0..MaxRows}

----------------------------------------------------------------------------
(* The documents the extractor is run on *)

\* a text of n characters
LongText(n) == [i \in 1..n |-> IF i % 2 = 1 THEN "a" ELSE "b"]

\* <p><strong>t</strong></p>
Label(t) ==
    [name |-> "p", has_strong |-> TRUE, strong |-> t, text |-> t,
     codes |-> <<>>]

\* <p>text</p>, codes being the texts of its <code> elements
Para(text, codes) ==
    [name |-> "p", has_strong |-> FALSE, strong |-> <<>>, text |-> text,
     codes |-> codes]

Table(rows) == [name |-> "table", rows |-> rows]

\* <div>, with the rows of the first <table> in it when it has one
Div(has_table, rows) ==
    [name |-> "div", has_table |-> has_table, rows |-> rows]

\* <dt>dt</dt> with the <dd> find_next_sibling gives it, when there is one:
\* the stripped strings of the <dd> and the texts of its <code> elements
DlItem(dt, has_dd, strings, codes) ==
    [dt |-> dt, has_dd |-> has_dd, strings |-> strings, codes |-> codes]

Dl(items) == [name |-> "dl", items |-> items]

HeaderRow == <<<<"Value">>, <<"Description">>>>

FooBarTable == <<HeaderRow, <<<<"foo">>, <<"d", "1">>>>, <<<<"bar">>, <<"d", "2">>>>>>

OneOfText ==
    <<"one of:", " ", "[", "'", "b", "'", ",", " ", "'", "a", "'", "]">>

\* the nodes a scope is made of: labelled paragraphs, paragraphs, tables
\* (bare and wrapped), definition lists and any other element
NodeSet ==
    {Label(<<"Type">>), Label(<<"Description">>), Label(<<"Values">>),
     Label(<<"Note">>), Label(<<>>)}
    \cup
    {Para(<<>>, <<>>),
     Para(<<>>, <<<<>>>>),
     Para(<<"str">>, <<>>),
     Para(<<"foo">>, <<>>),
     Para(<<"list", "[", "int", "]">>, <<<<"list", "[", "int", "]">>>>),
     Para(OneOfText, <<>>),
     Para(<<"a", " ", "b">>, <<>>),
     Para(LongText(DescLimit), <<>>),
     Para(LongText(DescLimit + 1), <<>>),
     Para(LongText(DescLimit + 20), <<>>)}
    \cup
    {Table(<<HeaderRow>>), Table(FooBarTable),
     Table(<<<<<<"baz">>>>>>),
     Div(FALSE, <<>>), Div(TRUE, <<HeaderRow>>), Div(TRUE, FooBarTable)}
    \cup
    {Dl(<<DlItem(<<"Type">>, TRUE, <<<<"int">>>>, <<>>)>>),
     Dl(<<DlItem(<<"Type">>, TRUE, <<<<"see">>, <<"str">>>>, <<<<"str">>>>),
          DlItem(<<"Description">>, TRUE,
                 <<<<"a", "\t", " ", "b">>, <<"b">>>>, <<>>)>>),
     Dl(<<DlItem(<<"Description">>, TRUE,
                 <<LongText(DescLimit - 1), <<"b">>>>, <<>>)>>),
     Dl(<<DlItem(<<"Description">>, TRUE,
                 <<LongText(DescLimit - 1), <<"b", "\t", " ", "a">>>>, <<>>)>>),
     Dl(<<DlItem(<<"Description">>, FALSE, <<>>, <<>>),
          DlItem(<<"Note">>, TRUE, <<<<"a">>>>, <<>>)>>)}
    \cup {[name |-> "ul"]}

\* the nodes of the documents whose scopes are recorded
DocNodeSet ==
    {Label(<<"Type">>), Label(<<"Description">>), Para(<<"str">>, <<>>),
     Para(<<"a", " ", "b">>, <<>>), Table(FooBarTable),
     Dl(<<DlItem(<<"Type">>, TRUE, <<<<"int">>>>, <<>>)>>)}

\* the nodes of a scope whose nodes are recorded: the three labels, two
\* paragraphs, a table without values, two tables with values (one of them
\* in a div) and a definition list
ScopeNodeSet ==
    {Label(<<"Type">>), Label(<<"Description">>), Label(<<"Values">>),
     Para(<<>>, <<>>),
     Para(<<"str">>, <<>>),
     Para(<<"list", "[", "int", "]">>, <<<<"list", "[", "int", "]">>>>),
     Table(<<HeaderRow>>), Table(FooBarTable),
     Div(TRUE, <<<<<<"baz">>>>>>),
     Dl(<<DlItem(<<"Type">>, TRUE, <<<<"int">>>>, <<>>)>>)}

\* the headings, as get_text gives them
HeadingSet ==
    {<<"name", Pilcrow>>,
     <<"apps", ".", "<app-name>", ".", "command", Pilcrow>>,
     <<"App keys", Pilcrow>>,
     <<"release-notes">>,
     <<Pilcrow>>}

----------------------------------------------------------------------------
(* Specification SpecType: TypeParser.parse called on one type string *)

\* the variables of the other specifications, at rest
TypeIdle ==
    /\ typeIn = <<>>
    /\ typeOut = EmptyFrag
    /\ typePc = "off"
    /\ typeForm = [form |-> "plain"]

TableIdle ==
    /\ tableRows = <<>>
    /\ tableOut = <<>>
    /\ tablePc = "off"

ExtractIdle ==
    /\ exPc = "off"
    /\ properties = <<>>
    /\ prop = NoProp
    /\ expecting_type = FALSE
    /\ expecting_desc = FALSE
    /\ found_type = FALSE
    /\ found_desc = FALSE
    /\ nHeadings = 0
    /\ nNodes = 0
    /\ signals = {}
    /\ descRaw = <<>>
    /\ descPath = "none"
    /\ scope = <<>>
    /\ lastScope = <<>>
    /\ overwritten = {}

MainIdle ==
    /\ mainPc = "off"
    /\ counts = <<>>
    /\ extensions = {}
    /\ raised = "none"
    /\ written = FALSE
    /\ fileBefore = "absent"
    /\ fetched = <<>>
    /\ failedFetches = {}
    /\ failedChecks = {}

PipeIdle ==
    /\ pipeDoc = <<>>
    /\ pipeLists = <<>>
    /\ run = <<>>

BuildIdle ==
    /\ buildPc = "off"
    /\ self_properties = <<>>
    /\ self_categorized = <<>>
    /\ build_defs = <<>>
    /\ self_schema = <<>>
    /\ built_schema = <<>>
    /\ enhancer_lists = <<>>

InitType ==
    /\ TableIdle
    /\ ExtractIdle
    /\ MainIdle
    /\ PipeIdle
    /\ BuildIdle
    /\ typePc = "call"
    /\ typeOut = EmptyFrag
    /\ \/ /\ typeIn \in SingleStrs(MaxDepth) \cup UnionStrs \cup OddStrs
          /\ typeForm = [form |-> "plain"]
       \/ \E lits \in LiteralLists, head \in {"One of:", "one of:"},
             ws \in {<<>>, <<" ">>}, sep \in Seps :
             /\ typeIn = OneOfStr(head, ws, lits, sep)
             /\ typeForm = [form |-> "oneof", lits |-> lits]
       \/ \E k \in DictKeys, sep \in Seps, v \in DictValues :
             /\ typeIn = DictStr(k, sep, v)
             /\ typeForm = [form |-> "dict", K |-> k, V |-> v]

\* fragment = TypeParser.parse(type_str)
CallParse ==
    /\ typePc = "call"
    /\ typeOut' = TypeParser_parse(typeIn)
    /\ typePc' = "done"
    /\ UNCHANGED <<typeIn, typeForm>>
    /\ UNCHANGED <<tableVars, extractVars, mainVars, pipeVars, buildVars>>

NextType == CallParse

SpecType == InitType /\ [][NextType]_vars

----------------------------------------------------------------------------
(* Specification SpecTable: _extract_table_values called on one table *)

InitTable ==
    /\ TypeIdle
    /\ ExtractIdle
    /\ MainIdle
    /\ PipeIdle
    /\ BuildIdle
    /\ tableRows \in Tables
    /\ tableOut = <<>>
    /\ tablePc = "call"

\* enum_values = self._extract_table_values(table)
CallExtractTable ==
    /\ tablePc = "call"
    /\ tableOut' = _extract_table_values(tableRows)
    /\ tablePc' = "done"
    /\ UNCHANGED tableRows
    /\ UNCHANGED <<typeVars, extractVars, mainVars, pipeVars, buildVars>>

NextTable == CallExtractTable

SpecTable == InitTable /\ [][NextTable]_vars

----------------------------------------------------------------------------
(* Specifications SpecExtract and SpecExtractAll: the extractor at work *)

\* the locals of _parse_property_content, as walk_node takes them
Locals ==
    [expecting_type |-> expecting_type, expecting_desc |-> expecting_desc,
     found_type |-> found_type, found_desc |-> found_desc, prop |-> prop]

\* the text a node offers as the description of a property that has none:
\* a paragraph's text, or the collapsed text of the first "description" term
\* of a definition list that has a <dd> with text
OfferedDesc(n) ==
    IF n.name = "p" THEN n.text
    ELSE LET texts == [i \in 1..Len(n.items) |->
                          collapse_ws(join(n.items[i].strings, <<" ">>))]
             at == {i \in 1..Len(n.items) :
                       /\ lower(n.items[i].dt) = <<"description">>
                       /\ n.items[i].has_dd
                       /\ texts[i] # <<>>}
         IN  texts[SetMin(at)]

\* the locals after one turn of the while loop on node n
WalkLocals(n) ==
    LET w == walk_node(Locals, n)
    IN  /\ expecting_type' = w.expecting_type
        /\ expecting_desc' = w.expecting_desc
        /\ found_type' = w.found_type
        /\ found_desc' = w.found_desc
        /\ prop' = w.prop
        /\ signals' = signals
               \cup (IF w.prop.type_schema # prop.type_schema
                     THEN {"type"} ELSE {})
               \cup (IF w.prop.enum_values # prop.enum_values
                     THEN {"enum"} ELSE {})
        /\ descRaw' = IF w.prop.description # prop.description
                      THEN OfferedDesc(n) ELSE descRaw
        /\ descPath' = IF w.prop.description # prop.description
                       THEN n.name ELSE descPath

\* _extract_property(heading) for a heading that is not skipped, up to the
\* start of the while loop
OpenProperty(heading_text) ==
    /\ prop' = PropertySchema(heading_text)
    /\ expecting_type' = FALSE
    /\ expecting_desc' = FALSE
    /\ found_type' = FALSE
    /\ found_desc' = FALSE
    /\ signals' = {}
    /\ descRaw' = <<>>
    /\ descPath' = "none"
    /\ scope' = <<>>
    /\ exPc' = "walk"

\* one heading's scope: _extract_property has just been called
InitExtract ==
    /\ TypeIdle
    /\ TableIdle
    /\ MainIdle
    /\ PipeIdle
    /\ BuildIdle
    /\ exPc = "walk"
    /\ properties = <<>>
    /\ \E raw \in HeadingSet :
          /\ ~is_skipped(heading_text_of(raw))
          /\ prop = PropertySchema(heading_text_of(raw))
    /\ expecting_type = FALSE
    /\ expecting_desc = FALSE
    /\ found_type = FALSE
    /\ found_desc = FALSE
    /\ nHeadings = 1
    /\ nNodes = 0
    /\ signals = {}
    /\ descRaw = <<>>
    /\ descPath = "none"
    /\ scope = <<>>
    /\ lastScope = <<>>
    /\ overwritten = {}

\* a turn of the while loop: current is a node of the scope
WalkNode ==
    /\ exPc = "walk"
    /\ nNodes < MaxNodes
    /\ \E n \in NodeSet : WalkLocals(n)
    /\ nNodes' = nNodes + 1
    /\ UNCHANGED <<exPc, properties, nHeadings, scope, lastScope,
                   overwritten>>
    /\ UNCHANGED <<typeVars, tableVars, mainVars, pipeVars, buildVars>>

\* the loop ends (current is None or a heading): the type is ensured,
\* _extract_property returns prop and extract_all stores it
WalkEnd ==
    /\ exPc = "walk"
    /\ prop' = ensure_type(prop)
    /\ properties' = dict_set(properties, prop.name, prop')
    /\ lastScope' = [p \in DOMAIN lastScope \cup {prop.name} |->
                        IF p = prop.name THEN scope ELSE lastScope[p]]
    /\ overwritten' = overwritten
           \cup {properties[i] : i \in {j \in 1..Len(properties) :
                                            properties[j].name = prop.name}}
    /\ exPc' = "headings"
    /\ UNCHANGED <<expecting_type, expecting_desc, found_type, found_desc,
                   nHeadings, nNodes, signals, descRaw, descPath, scope>>
    /\ UNCHANGED <<typeVars, tableVars, mainVars, pipeVars, buildVars>>

NextExtract == WalkNode \/ WalkEnd

SpecExtract == InitExtract /\ [][NextExtract]_vars

\* a turn of the while loop in the one scope, current being recorded
WalkScopeNode ==
    /\ exPc = "walk"
    /\ nNodes < MaxNodes
    /\ \E current \in ScopeNodeSet :
          /\ WalkLocals(current)
          /\ scope' = Append(scope, current)
    /\ nNodes' = nNodes + 1
    /\ UNCHANGED <<exPc, properties, nHeadings, lastScope, overwritten>>
    /\ UNCHANGED <<typeVars, tableVars, mainVars, pipeVars, buildVars>>

NextScope == WalkScopeNode \/ WalkEnd

\* one heading's scope, with the nodes walked so far kept
SpecScope == InitExtract /\ [][NextScope]_vars

\* extract_all has just been called
InitExtractAll ==
    /\ TypeIdle
    /\ TableIdle
    /\ MainIdle
    /\ PipeIdle
    /\ BuildIdle
    /\ exPc = "headings"
    /\ properties = <<>>
    /\ prop = NoProp
    /\ expecting_type = FALSE
    /\ expecting_desc = FALSE
    /\ found_type = FALSE
    /\ found_desc = FALSE
    /\ nHeadings = 0
    /\ nNodes = 0
    /\ signals = {}
    /\ descRaw = <<>>
    /\ descPath = "none"
    /\ scope = <<>>
    /\ lastScope = <<>>
    /\ overwritten = {}

\* the for loop of extract_all takes the next heading, which is skipped
SkipHeading ==
    /\ exPc = "headings"
    /\ nHeadings < MaxHeadings
    /\ \E raw \in HeadingSet : is_skipped(heading_text_of(raw))
    /\ nHeadings' = nHeadings + 1
    /\ prop' = NoProp
    /\ UNCHANGED <<exPc, properties, expecting_type, expecting_desc,
                   found_type, found_desc, nNodes, signals, descRaw,
                   descPath, scope, lastScope, overwritten>>
    /\ UNCHANGED <<typeVars, tableVars, mainVars, pipeVars, buildVars>>

\* the for loop of extract_all takes the next heading, which is a property
TakeHeading ==
    /\ exPc = "headings"
    /\ nHeadings < MaxHeadings
    /\ \E raw \in HeadingSet :
          /\ ~is_skipped(heading_text_of(raw))
          /\ OpenProperty(heading_text_of(raw))
    /\ nHeadings' = nHeadings + 1
    /\ UNCHANGED <<properties, nNodes, lastScope, overwritten>>
    /\ UNCHANGED <<typeVars, tableVars, mainVars, pipeVars, buildVars>>

\* a turn of the while loop, the node being recorded in the scope
WalkDocNode ==
    /\ exPc = "walk"
    /\ nNodes < MaxDocNodes
    /\ \E n \in DocNodeSet :
          /\ WalkLocals(n)
          /\ scope' = Append(scope, n)
    /\ nNodes' = nNodes + 1
    /\ UNCHANGED <<exPc, properties, nHeadings, lastScope, overwritten>>
    /\ UNCHANGED <<typeVars, tableVars, mainVars, pipeVars, buildVars>>

\* the for loop is over: extract_all returns properties
ExtractAllReturn ==
    /\ exPc = "headings"
    /\ exPc' = "done"
    /\ UNCHANGED <<properties, walkVars, nHeadings, nNodes, signals, descRaw,
                   descPath, scope, lastScope, overwritten>>
    /\ UNCHANGED <<typeVars, tableVars, mainVars, pipeVars, buildVars>>

NextExtractAll ==
    SkipHeading \/ TakeHeading \/ WalkDocNode \/ WalkEnd \/ ExtractAllReturn

SpecExtractAll == InitExtractAll /\ [][NextExtractAll]_vars

----------------------------------------------------------------------------
(* Specification SpecMain: one run of main *)

\* ValidationThresholds
ValidationThresholds ==
    [plugins |-> 15, bases |-> 5, extensions |-> 4, interfaces |-> 150,
     properties |-> 50]

\* the classes an exception is an instance of
ExceptionClasses(exc) ==
    CASE exc = "HTTPError" ->
             {"HTTPError", "URLError", "OSError", "Exception", "BaseException"}
      [] exc = "URLError" ->
             {"URLError", "OSError", "Exception", "BaseException"}
      [] exc = "TimeoutError" ->
             {"TimeoutError", "OSError", "Exception", "BaseException"}
      [] exc = "UnicodeDecodeError" ->
             {"UnicodeDecodeError", "ValueError", "Exception", "BaseException"}
      [] exc = "JSONDecodeError" ->
             {"JSONDecodeError", "ValueError", "Exception", "BaseException"}
      [] exc = "ValueError" -> {"ValueError", "Exception", "BaseException"}
      [] exc = "SystemExit" -> {"SystemExit", "BaseException"}
      [] exc = "KeyboardInterrupt" -> {"KeyboardInterrupt", "BaseException"}

\* except (classes): does the clause take exc
Caught(exc, classes) == ExceptionClasses(exc) \cap classes # {}

\* what opening, reading and decoding a document may end with
FetchOutcomes ==
    {"ok", "HTTPError", "URLError", "TimeoutError", "UnicodeDecodeError",
     "KeyboardInterrupt"}

\* a fetch that lets the error of the transport through
fetch_reraises(outcome) == IF outcome = "ok" THEN "none" ELSE outcome

\* HTTPClient.fetch: the exception it leaves with ("none": it returns the
\* document) when the body of its try block ends with outcome
fetch(outcome) ==
    IF outcome = "ok" THEN "none"
    ELSE IF Caught(outcome, {"HTTPError"}) THEN "SystemExit"
    ELSE IF Caught(outcome, {"URLError"}) THEN "SystemExit"
    ELSE IF Caught(outcome, {"Exception"}) THEN "SystemExit"
    ELSE outcome

\* a check that lets a count one short of the minimum through
below_min_off_by_one(count, min_expected) == count + 1 < min_expected

\* len(result) < min_expected
below_min(count, min_expected) == count < min_expected

\* the except clauses around the two fetches of ExtensionParser.parse
REGISTRY_EXCEPT == {"HTTPError", "URLError", "OSError"}

LEGACY_EXCEPT == {"HTTPError", "URLError", "OSError", "JSONDecodeError"}

\* the lengths the documents of a run may give, by category
ParsedCounts ==
    [properties |-> {0, 49, 50, 51}, plugins |-> {3, 14, 15, 16},
     bases |-> {0, 4, 5}, interfaces |-> {149, 150, 200}]

\* the names registry.py may hold
RegistryNames == {{}, {"gnome", "kde"}, {"gnome", "kde", "ros2", "env"}}

\* what snapcraft-legacy.json may be: not JSON, or a schema with these names
\* in its extension enums
LegacyDocuments ==
    {[is_json |-> FALSE, names |-> {}]}
    \cup {[is_json |-> TRUE, names |-> n] :
             n \in {{}, {"ros1", "kde"}, {"ros1", "flutter", "kde"}}}

\* the statements of main, and what follows each when nothing is raised
MainNextPc ==
    [fetch_main |-> "extract", extract |-> "fetch_plugins",
     fetch_plugins |-> "parse_plugins", parse_plugins |-> "fetch_bases",
     fetch_bases |-> "parse_bases", parse_bases |-> "fetch_extensions",
     fetch_extensions |-> "fetch_registry", fetch_registry |-> "fetch_legacy",
     fetch_legacy |-> "check_extensions",
     check_extensions |-> "fetch_interfaces",
     fetch_interfaces |-> "parse_interfaces", parse_interfaces |-> "enhance",
     enhance |-> "write", write |-> "returned"]

\* the document a fetch statement of main asks for
PageOf ==
    [fetch_main |-> "main", fetch_plugins |-> "plugins",
     fetch_bases |-> "bases", fetch_extensions |-> "extensions",
     fetch_interfaces |-> "interfaces"]

\* the category a parse statement of main counts
CategoryOf ==
    [extract |-> "properties", parse_plugins |-> "plugins",
     parse_bases |-> "bases", parse_interfaces |-> "interfaces"]

InitMain ==
    /\ TypeIdle
    /\ TableIdle
    /\ ExtractIdle
    /\ PipeIdle
    /\ BuildIdle
    /\ mainPc = "fetch_main"
    /\ counts = <<>>
    /\ extensions = {}
    /\ raised = "none"
    /\ written = FALSE
    /\ fileBefore \in {"absent", "same", "differs"}
    /\ fetched = <<>>
    /\ failedFetches = {}
    /\ failedChecks = {}

\* nothing in main or the parsers catches exc: the run ends with it
Abort(exc) ==
    /\ raised' = exc
    /\ mainPc' = "aborted"

\* x_html = HTTPClient.fetch(urls.x), a statement of main
FetchPage ==
    /\ mainPc \in DOMAIN PageOf
    /\ \E outcome \in FetchOutcomes :
          IF fetch(outcome) = "none"
          THEN /\ fetched' = Append(fetched, PageOf[mainPc])
               /\ mainPc' = MainNextPc[mainPc]
               /\ UNCHANGED <<raised, failedFetches>>
          ELSE /\ failedFetches' = failedFetches \cup {PageOf[mainPc]}
               /\ Abort(fetch(outcome))
               /\ UNCHANGED fetched
    /\ UNCHANGED <<counts, extensions, written, fileBefore, failedChecks>>
    /\ UNCHANGED <<typeVars, tableVars, extractVars, pipeVars, buildVars>>

\* properties = extractor.extract_all() and the check of len(properties),
\* which ends the run with sys.exit(1), then builder.build()
ExtractAndCheck ==
    /\ mainPc = "extract"
    /\ \E n \in ParsedCounts.properties :
          /\ counts' = ("properties" :> n) @@ counts
          /\ IF below_min(n, ValidationThresholds.properties)
             THEN /\ failedChecks' = failedChecks \cup {"properties"}
                  /\ Abort("SystemExit")
             ELSE /\ mainPc' = MainNextPc[mainPc]
                  /\ UNCHANGED <<raised, failedChecks>>
    /\ UNCHANGED <<extensions, written, fileBefore, fetched, failedFetches>>
    /\ UNCHANGED <<typeVars, tableVars, extractVars, pipeVars, buildVars>>

\* PluginParser.parse, BaseParser.parse and InterfaceParser.parse, called
\* by main: each raises ValueError when its sorted result is too short
ParseAndCheck ==
    /\ mainPc \in {"parse_plugins", "parse_bases", "parse_interfaces"}
    /\ \E n \in ParsedCounts[CategoryOf[mainPc]] :
          /\ counts' = (CategoryOf[mainPc] :> n) @@ counts
          /\ IF below_min(n, ValidationThresholds[CategoryOf[mainPc]])
             THEN /\ failedChecks' = failedChecks \cup {CategoryOf[mainPc]}
                  /\ Abort("ValueError")
             ELSE /\ mainPc' = MainNextPc[mainPc]
                  /\ UNCHANGED <<raised, failedChecks>>
    /\ UNCHANGED <<extensions, written, fileBefore, fetched, failedFetches>>
    /\ UNCHANGED <<typeVars, tableVars, extractVars, pipeVars, buildVars>>

\* ExtensionParser.parse, its first try block: registry.py
ExtensionFetchRegistry ==
    /\ mainPc = "fetch_registry"
    /\ \E outcome \in FetchOutcomes :
          IF fetch(outcome) = "none"
          THEN /\ \E modern_extensions \in RegistryNames :
                     extensions' = extensions \cup modern_extensions
               /\ fetched' = Append(fetched, "registry")
               /\ mainPc' = MainNextPc[mainPc]
               /\ UNCHANGED <<raised, failedFetches>>
          ELSE /\ failedFetches' = failedFetches \cup {"registry"}
               /\ IF Caught(fetch(outcome), REGISTRY_EXCEPT)
                  THEN /\ mainPc' = MainNextPc[mainPc]
                       /\ UNCHANGED raised
                  ELSE Abort(fetch(outcome))
               /\ UNCHANGED <<extensions, fetched>>
    /\ UNCHANGED <<counts, written, fileBefore, failedChecks>>
    /\ UNCHANGED <<typeVars, tableVars, extractVars, pipeVars, buildVars>>

\* ExtensionParser.parse, its second try block: snapcraft-legacy.json, which
\* json.loads may refuse
ExtensionFetchLegacy ==
    /\ mainPc = "fetch_legacy"
    /\ \E outcome \in FetchOutcomes :
          IF fetch(outcome) = "none"
          THEN /\ \E legacy \in LegacyDocuments :
                     IF ~legacy.is_json
                     THEN /\ Caught("JSONDecodeError", LEGACY_EXCEPT)
                          /\ UNCHANGED extensions
                     ELSE extensions' = extensions \cup legacy.names
               /\ fetched' = Append(fetched, "legacy")
               /\ mainPc' = MainNextPc[mainPc]
               /\ UNCHANGED <<raised, failedFetches>>
          ELSE /\ failedFetches' = failedFetches \cup {"legacy"}
               /\ IF Caught(fetch(outcome), LEGACY_EXCEPT)
                  THEN /\ mainPc' = MainNextPc[mainPc]
                       /\ UNCHANGED raised
                  ELSE Abort(fetch(outcome))
               /\ UNCHANGED <<extensions, fetched>>
    /\ UNCHANGED <<counts, written, fileBefore, failedChecks>>
    /\ UNCHANGED <<typeVars, tableVars, extractVars, pipeVars, buildVars>>

\* ExtensionParser.parse, its end: result = sorted(extensions) and the check
ExtensionCheck ==
    /\ mainPc = "check_extensions"
    /\ counts' = ("extensions" :> Cardinality(extensions)) @@ counts
    /\ IF below_min(Cardinality(extensions), ValidationThresholds.extensions)
       THEN /\ failedChecks' = failedChecks \cup {"extensions"}
            /\ Abort("ValueError")
       ELSE /\ mainPc' = MainNextPc[mainPc]
            /\ UNCHANGED <<raised, failedChecks>>
    /\ UNCHANGED <<extensions, written, fileBefore, fetched, failedFetches>>
    /\ UNCHANGED <<typeVars, tableVars, extractVars, pipeVars, buildVars>>

\* schema = enhancer.enhance() and new_content = json.dumps(schema, ...)
Enhance ==
    /\ mainPc = "enhance"
    /\ mainPc' = MainNextPc[mainPc]
    /\ UNCHANGED <<counts, extensions, raised, written, fileBefore, fetched,
                   failedFetches, failedChecks>>
    /\ UNCHANGED <<typeVars, tableVars, extractVars, pipeVars, buildVars>>

\* the file is written unless it exists with the new content already
WriteSchema ==
    /\ mainPc = "write"
    /\ written' = (fileBefore # "same")
    /\ mainPc' = MainNextPc[mainPc]
    /\ UNCHANGED <<counts, extensions, raised, fileBefore, fetched,
                   failedFetches, failedChecks>>
    /\ UNCHANGED <<typeVars, tableVars, extractVars, pipeVars, buildVars>>

NextMain ==
    \/ FetchPage
    \/ ExtractAndCheck
    \/ ParseAndCheck
    \/ ExtensionFetchRegistry
    \/ ExtensionFetchLegacy
    \/ ExtensionCheck
    \/ Enhance
    \/ WriteSchema

SpecMain == InitMain /\ [][NextMain]_vars

----------------------------------------------------------------------------
(* Specification SpecTwice: the pipeline run twice on the same inputs *)

\* a heading and the two nodes that give it a type
Section(heading, type_text) ==
    [heading |-> heading \o <<Pilcrow>>,
     nodes |-> <<Label(<<"Type">>), Para(type_text, <<>>)>>]

\* the headings of a document with a field for every bucket, with paths
\* that are dropped, a skipped heading and a path that comes twice
AllSections ==
    <<Section(<<"name">>, <<"str">>),
      Section(<<"base">>, <<"str">>),
      Section(<<"build-base">>, OneOfText),
      Section(<<"architectures">>, <<"list", "[", "str", "]">>),
      Section(<<"apps", ".", "<app-name>", ".", "command">>, <<"str">>),
      Section(<<"apps", ".", "<app-name>", ".", "extensions">>,
              <<"list", "[", "str", "]">>),
      Section(<<"apps", ".", "<app-name>", ".", "plugs">>,
              <<"list", "[", "str", "]">>),
      Section(<<"apps", ".", "<app-name>", ".", "sockets", ".",
                "<socket-name>", ".", "listen-stream">>, <<"int">>),
      Section(<<"App keys">>, <<"str">>),
      Section(<<"parts", ".", "<part-name>", ".", "plugin">>, <<"str">>),
      Section(<<"parts", ".", "<part-name>", ".", "permissions", ".",
                "<permission>", ".", "owner">>, <<"int">>),
      Section(<<"platforms", ".", "<platform-name>", ".", "build-on">>,
              <<"str">>),
      Section(<<"architectures", ".", "<architecture>", ".", "build-for">>,
              <<"str">>),
      Section(<<"hooks", ".", "<hook-type>", ".", "command-chain">>,
              <<"list", "[", "str", "]">>),
      Section(<<"components", ".", "<component-name>", ".", "type">>,
              <<"str">>),
      Section(<<"components", ".", "<component-name>", ".", "hooks", ".",
                "<hook-type>", ".", "command-chain">>, <<"str">>),
      Section(<<"plugs", ".", "<plug-name>", ".", "content">>, <<"str">>),
      Section(<<"apps", ".", "<app-name>", ".", "extensions">>, <<"str">>),
      Section(<<"lint", ".", "ignore">>, <<"list", "[", "str", "]">>),
      Section(<<"parts", ".", "<part-name>", ".", "override", ".",
                "<name>">>, <<"str">>),
      [heading |-> <<"plugs", Pilcrow>>,
       nodes |-> <<Label(<<"Values">>), Table(FooBarTable)>>]>>

\* the documents: runs of consecutive headings of AllSections, the empty
\* document and the whole of it among them
Documents ==
    {SubSeq(AllSections, w[1], w[2]) :
        w \in {<<1, 0>>, <<1, 4>>, <<5, 9>>, <<10, 11>>, <<12, 13>>,
               <<14, 16>>, <<17, 21>>, <<1, 13>>, <<5, 21>>, <<1, 21>>}}

\* the identifier lists main hands to the enhancer
IdentifierLists ==
    {[plugins |-> <<>>, bases |-> <<>>, extensions |-> <<>>,
      interfaces |-> <<>>],
     [plugins |-> <<<<"foo">>, <<"bar">>>>,
      bases |-> <<<<"core22">>, <<"core24">>>>,
      extensions |-> <<<<"gnome">>>>,
      interfaces |-> <<<<"network">>, <<"home">>>>],
     [plugins |-> <<<<"foo">>>>,
      bases |-> <<<<"bare">>, <<"devel">>>>,
      extensions |-> <<<<"gnome">>, <<"kde">>>>,
      interfaces |-> [i \in 1..26 |-> <<"interface-", i>>]]}

InitTwice ==
    /\ TypeIdle
    /\ TableIdle
    /\ ExtractIdle
    /\ MainIdle
    /\ BuildIdle
    /\ pipeDoc \in Documents
    /\ pipeLists \in IdentifierLists
    /\ run = [r \in 1..2 |->
                 [pc |-> "extract", properties |-> <<>>,
                  schema |-> [properties |-> <<>>, defs |-> <<>>],
                  content |-> <<>>]]

\* the two runs are stepped in turn: run 1 takes a stage, then run 2 takes
\* the same stage
Turn(r) ==
    /\ run[r].pc # "done"
    /\ IF r = 1 THEN run[1].pc = run[2].pc
       ELSE run[1].pc # run[2].pc

\* properties = extractor.extract_all()
RunExtract(r) ==
    /\ Turn(r)
    /\ run[r].pc = "extract"
    /\ run' = [run EXCEPT ![r].properties = extract_all(pipeDoc, <<>>),
                          ![r].pc = "build"]
    /\ UNCHANGED <<pipeDoc, pipeLists>>
    /\ UNCHANGED <<typeVars, tableVars, extractVars, mainVars, buildVars>>

\* schema = builder.build()
RunBuild(r) ==
    /\ Turn(r)
    /\ run[r].pc = "build"
    /\ run' = [run EXCEPT ![r].schema = build(run[r].properties),
                          ![r].pc = "enhance"]
    /\ UNCHANGED <<pipeDoc, pipeLists>>
    /\ UNCHANGED <<typeVars, tableVars, extractVars, mainVars, buildVars>>

\* schema = enhancer.enhance(), the frozenset being iterated in some order
RunEnhance(r) ==
    /\ Turn(r)
    /\ run[r].pc = "enhance"
    /\ \E archs \in ArchitectureLists :
          run' = [run EXCEPT ![r].schema = enhance(@, pipeLists, archs),
                             ![r].pc = "serialize"]
    /\ UNCHANGED <<pipeDoc, pipeLists>>
    /\ UNCHANGED <<typeVars, tableVars, extractVars, mainVars, buildVars>>

\* new_content = json.dumps(schema, indent=2, ensure_ascii=False) + "\n"
RunSerialize(r) ==
    /\ Turn(r)
    /\ run[r].pc = "serialize"
    /\ run' = [run EXCEPT ![r].content = dumps(run[r].schema),
                          ![r].pc = "done"]
    /\ UNCHANGED <<pipeDoc, pipeLists>>
    /\ UNCHANGED <<typeVars, tableVars, extractVars, mainVars, buildVars>>

NextTwice ==
    \E r \in 1..2 :
        \/ RunExtract(r)
        \/ RunBuild(r)
        \/ RunEnhance(r)
        \/ RunSerialize(r)

SpecTwice == InitTwice /\ [][NextTwice]_vars

----------------------------------------------------------------------------
(* Specification SpecBuild: SchemaBuilder.build and SchemaEnhancer.enhance *)

\* a property as extract_all leaves it, with a type or with enum values
Property(path, type_text, values) ==
    [PropertySchema(path) EXCEPT
        !.type_schema = IF type_text = <<>> THEN EmptyFrag
                        ELSE TypeParser_parse(type_text),
        !.enum_values = values]

\* properties of every bucket, of paths that several rules match, of paths
\* with a placeholder left over, and top-level fields named like wrappers
PropertyPool ==
    {Property(<<"base">>, <<"str">>, <<>>),
     Property(<<"architectures">>, <<"list", "[", "str", "]">>, <<>>),
     Property(<<"apps">>, <<"dict", "[", "str", ",", " ", "any", "]">>, <<>>),
     Property(<<"plugs">>, <<>>, <<<<"bar">>, <<"foo">>>>),
     Property(<<"lint">>, <<"str">>, <<>>),
     Property(<<"apps", ".", "<app-name>", ".", "plugs">>,
              <<"list", "[", "str", "]">>, <<>>),
     Property(<<"apps", ".", "<app-name>", ".", "sockets", ".",
                "<socket-name>", ".", "listen-stream">>, <<"int">>, <<>>),
     Property(<<"apps", ".", "<app-name>", ".", "sockets", ".",
                "<socket-name>">>, <<"str">>, <<>>),
     Property(<<"apps", ".", "<app-name>", ".", "<name>">>, <<"str">>, <<>>),
     Property(<<"sockets", ".", "<socket-name>", ".", "listen-stream">>,
              <<"str">>, <<>>),
     Property(<<"parts", ".", "<part-name>", ".", "plugin">>, <<"str">>,
              <<>>),
     Property(<<"parts", ".", "<part-name>", ".", "permissions", ".",
                "<permission>", ".", "owner">>, <<"int">>, <<>>),
     Property(<<"platforms", ".", "<platform-name>", ".", "build-on">>,
              <<"str">>, <<>>),
     Property(<<"architectures", ".", "<architecture>", ".", "build-for">>,
              <<"str">>, <<>>),
     Property(<<"hooks", ".", "<hook-type>", ".", "command-chain">>,
              <<"list", "[", "str", "]">>, <<>>),
     Property(<<"components", ".", "<component-name>", ".", "type">>,
              <<"str">>, <<>>),
     Property(<<"components", ".", "<component-name>", ".", "hooks", ".",
                "<hook-type>", ".", "command-chain">>, <<"str">>, <<>>),
     Property(<<"plugs", ".", "<plug-name>", ".", "content">>, <<"str">>,
              <<>>),
     Property(<<"slots", ".", "<slot-name>", ".", "interface">>, <<"str">>,
              <<>>),
     Property(<<"lint", ".", "ignore">>, <<"list", "[", "str", "]">>, <<>>),
     Property(<<"foo", ".", "<name>", ".", "bar">>, <<"str">>, <<>>),
     Property(<<"<name>">>, <<"str">>, <<>>)}

\* the dicts of at most n properties of the pool, as their items in order
RECURSIVE PropertyDicts(_)
PropertyDicts(n) ==
    IF n = 0 THEN {<<>>}
    ELSE LET shorter == PropertyDicts(n - 1)
         IN  shorter
             \cup {Append(d, p) : d \in shorter, p \in PropertyPool}

\* what main hands to the builder: a dict of MaxProps properties with
\* distinct paths, or the properties of the document AllSections
BuilderInputs ==
    {d \in PropertyDicts(MaxProps) :
        \A i, j \in 1..Len(d) : d[i].name = d[j].name => i = j}
    \cup {extract_all(AllSections, <<>>)}

InitBuild ==
    /\ TypeIdle
    /\ TableIdle
    /\ ExtractIdle
    /\ MainIdle
    /\ PipeIdle
    /\ buildPc = "categorize"
    /\ self_properties \in BuilderInputs
    /\ self_categorized = EmptyCategorized
    /\ build_defs = <<>>
    /\ self_schema = <<>>
    /\ built_schema = <<>>
    /\ enhancer_lists = <<>>

\* self._categorize_properties()
Categorize ==
    /\ buildPc = "categorize"
    /\ self_categorized' =
           _categorize_properties(self_properties, self_categorized)
    /\ buildPc' = "definitions"
    /\ UNCHANGED <<self_properties, build_defs, self_schema, built_schema,
                   enhancer_lists>>
    /\ UNCHANGED <<typeVars, tableVars, extractVars, mainVars, pipeVars>>

\* defs = self._build_definitions()
BuildDefinitions ==
    /\ buildPc = "definitions"
    /\ build_defs' = _build_definitions(self_categorized)
    /\ buildPc' = "top_level"
    /\ UNCHANGED <<self_properties, self_categorized, self_schema,
                   built_schema, enhancer_lists>>
    /\ UNCHANGED <<typeVars, tableVars, extractVars, mainVars, pipeVars>>

\* top_level_props = self._build_top_level(defs) and the schema build
\* returns, which main hands to the enhancer
BuildTopLevel ==
    /\ buildPc = "top_level"
    /\ self_schema' =
           [properties |-> _build_top_level(self_categorized, build_defs),
            defs |-> build_defs]
    /\ built_schema' = self_schema'
    /\ buildPc' = "enhance"
    /\ UNCHANGED <<self_properties, self_categorized, build_defs,
                   enhancer_lists>>
    /\ UNCHANGED <<typeVars, tableVars, extractVars, mainVars, pipeVars>>

\* schema = SchemaEnhancer(schema, plugins, bases, extensions,
\* interfaces).enhance()
EnhanceSchema ==
    /\ buildPc = "enhance"
    /\ \E lists \in IdentifierLists, archs \in ArchitectureLists :
          /\ enhancer_lists' = lists
          /\ self_schema' = enhance(self_schema, lists, archs)
    /\ buildPc' = "done"
    /\ UNCHANGED <<self_properties, self_categorized, build_defs,
                   built_schema>>
    /\ UNCHANGED <<typeVars, tableVars, extractVars, mainVars, pipeVars>>

NextBuild ==
    \/ Categorize
    \/ BuildDefinitions
    \/ BuildTopLevel
    \/ EnhanceSchema

SpecBuild == InitBuild /\ [][NextBuild]_vars

----------------------------------------------------------------------------
(* Claims about TypeParser *)

HasBar(s) == \E i \in 1..Len(s) : s[i] = "|"

\* C5: parse of "One of: ['a','b',...]" is {type: string, enum: [...]} with
\* the quoted literals in the order they were written, whatever they hold
\* (a "|" included): the form is matched before any splitting on "|".
C5_OneOfKeepsDeclaredOrder ==
    (typePc = "done" /\ typeForm.form = "oneof")
        => typeOut = [type |-> "string", enum |-> typeForm.lits]

\* C5 witness: a literal list that is not sorted and holds a "|" went through
C5_Witness ==
    /\ typePc = "done"
    /\ typeForm.form = "oneof"
    /\ typeForm.lits = <<<<"b", "|", "a">>, <<"a">>>>
    /\ typeOut.enum = <<<<"b", "|", "a">>, <<"a">>>>

\* the fragments of the branches of s that do not parse empty, in branch order
SurvivingBranches(s) ==
    LET branches == split_on(strip(s), "|")
    IN  SelectSeq([i \in 1..Len(branches) |-> _parse_single(branches[i])],
                  LAMBDA f : f # EmptyFrag)

\* ONE_OF_PATTERN matched s and quoted values were found in it
IsEnumLiteral(s) ==
    /\ ONE_OF_PATTERN_span(strip(s)) # <<0, 0>>
    /\ findall_quoted(SubSeq(strip(s), ONE_OF_PATTERN_span(strip(s))[1] + 1,
                              ONE_OF_PATTERN_span(strip(s))[2] - 1)) # <<>>

C7_DictValueParsed ==
    (typePc = "done" /\ typeForm.form = "dict")
        => typeOut =
             [type |-> "object",
              additionalProperties |->
                  IF TypeParser_parse(typeForm.V) # EmptyFrag
                  THEN TypeParser_parse(typeForm.V) ELSE JsonTrue]

\* C20: an anyOf descriptor TypeParser.parse returns has at least two
\* branches, none of them the empty fragment, and no two of them equal.
C20_AnyOfDistinctBranches ==
    (typePc = "done" /\ "anyOf" \in DOMAIN typeOut) =>
        /\ Len(typeOut.anyOf) >= 2
        /\ \A i \in 1..Len(typeOut.anyOf) : typeOut.anyOf[i] # EmptyFrag
        /\ \A i, j \in 1..Len(typeOut.anyOf) :
               typeOut.anyOf[i] = typeOut.anyOf[j] => i = j

----------------------------------------------------------------------------
(* Claims about _extract_table_values *)

\* what the claim says a first cell contributes: nothing when the row has no
\* cell or the cell is empty or is "value", "values" or "name" in any case;
\* else its first whitespace-separated token when it holds a space; else
\* the cell itself
CellCandidates(cells) ==
    IF cells = <<>> \/ cells[1] = <<>> THEN {}
    ELSE IF lower(cells[1]) \in {<<"value">>, <<"values">>, <<"name">>} THEN {}
    ELSE IF \E i \in 1..Len(cells[1]) : cells[1][i] = " "
         THEN {first_word(cells[1])}
    ELSE {cells[1]}

\* C8: the result holds exactly the candidates of the rows' first cells,
\* each once, in ascending lexicographic order.
C8_TableValuesSortedUnique ==
    tablePc = "done"
        => /\ {tableOut[i] : i \in 1..Len(tableOut)}
                = UNION {CellCandidates(tableRows[r]) : r \in 1..Len(tableRows)}
           /\ \A i \in 1..(Len(tableOut) - 1) :
                  TextLess(tableOut[i], tableOut[i + 1])

\* C8 witness: rows (Value,Description),(foo,d1),(bar,d2),(foo,d3) gave
\* [bar, foo]
C8_Witness ==
    /\ tablePc = "done"
    /\ tableRows = << <<<<"Value">>, <<"Description">>>>,
                      <<<<"foo">>, <<"d", "1">>>>,
                      <<<<"bar">>, <<"d", "2">>>>,
                      <<<<"foo">>, <<"d", "3">>>> >>
    /\ tableOut = << <<"bar">>, <<"foo">> >>

----------------------------------------------------------------------------
(* Claims about PropertyExtractor *)

\* _parse_property_content has returned for the heading whose record is prop
ScopeFinished == exPc = "headings" /\ prop # NoProp

\* C4 as stated: after _parse_property_content has finished for a heading,
\* the record's type descriptor is never the empty fragment, whatever the
\* sibling nodes of the scope were.
C4_TypeNeverEmpty ==
    ScopeFinished => prop.type_schema # EmptyFrag

\* C4: after _parse_property_content has finished for a heading, the
\* record's type descriptor is the empty fragment only when enum values were
\* captured from a table; it is the plain string type when the walk captured
\* neither a type nor enum values; and the fragment to_json_schema gives for
\* the record is never empty.
C4_TypeEmptyOnlyWithEnum ==
    ScopeFinished =>
        /\ prop.type_schema = EmptyFrag
               => (prop.enum_values # <<>> /\ "enum" \in signals)
        /\ signals = {} => prop.type_schema = [type |-> "string"]
        /\ "enum" \notin signals => prop.type_schema # EmptyFrag
        /\ to_json_schema(prop) # EmptyFrag
        /\ "type" \in DOMAIN to_json_schema(prop)
               \/ "anyOf" \in DOMAIN to_json_schema(prop)

\* C4 witness: a scope of three nodes that captured nothing has ended with
\* the plain string type
C4_Witness ==
    /\ ScopeFinished
    /\ nNodes = MaxNodes
    /\ signals = {}
    /\ prop.enum_values = <<>>
    /\ prop.type_schema = [type |-> "string"]

\* the stored form of a captured description text
StoredDescription(text) ==
    IF Len(text) <= 500 THEN text
    ELSE [i \in 1..500 |-> IF i <= 497 THEN text[i] ELSE "."]

\* C9: a captured description of length L is stored unchanged when L <= 500
\* and as its first 497 characters followed by "..." when L > 500, on the
\* paragraph path and on the definition-list path alike, so that a stored
\* description never has more than 500 characters.
C9_DescriptionTruncation ==
    (exPc \in {"walk", "headings"} /\ prop # NoProp) =>
        /\ Len(prop.description) <= 500
        /\ descPath = "none" => prop.description = <<>>
        /\ descPath \in {"p", "dl"}
               => prop.description = StoredDescription(descRaw)

\* C9 witness: a paragraph of 520 characters is stored as 497 characters and
\* three dots
C9_Witness ==
    /\ exPc = "walk"
    /\ descPath = "p"
    /\ Len(descRaw) = 520
    /\ Len(prop.description) = 500
    /\ SubSeq(prop.description, 1, 497) = SubSeq(descRaw, 1, 497)
    /\ SubSeq(prop.description, 498, 500) = <<".", ".", ".">>

\* C10: extract_all returns one record per distinct path, and the record of
\* a path is the one built from the scope of the last non-skipped heading
\* with that text: nothing captured for an earlier heading is left in it.
C10_LastHeadingWins ==
    exPc = "done" =>
        /\ \A i, j \in 1..Len(properties) :
               properties[i].name = properties[j].name => i = j
        /\ {properties[i].name : i \in 1..Len(properties)} = DOMAIN lastScope
        /\ \A i \in 1..Len(properties) :
               properties[i] =
                   _parse_property_content(lastScope[properties[i].name],
                                           PropertySchema(properties[i].name))

\* C10 witness: a record with a type was replaced by the record of a later
\* heading with the same text, which has enum values and no type
C10_Witness ==
    /\ exPc = "done"
    /\ \E r \in overwritten : \E i \in 1..Len(properties) :
           /\ properties[i].name = r.name
           /\ r.type_schema = [type |-> "integer"]
           /\ r.enum_values = <<>>
           /\ properties[i].type_schema = EmptyFrag
           /\ properties[i].enum_values # <<>>

----------------------------------------------------------------------------
(* Claims about main *)

\* the order main makes its five count checks in
CheckOrder == <<"properties", "plugins", "bases", "extensions", "interfaces">>

\* C1: the schema file is written only after all five count checks have
\* passed (properties 50, plugins 15, bases 5, extensions 4, interfaces 150);
\* a count below its minimum ends the run at that check, with no later
\* category parsed and the file not written.
C1_WriteOnlyAfterChecks ==
    /\ written =>
           /\ DOMAIN counts = {CheckOrder[i] : i \in 1..5}
           /\ counts["properties"] >= 50
           /\ counts["plugins"] >= 15
           /\ counts["bases"] >= 5
           /\ counts["extensions"] >= 4
           /\ counts["interfaces"] >= 150
           /\ failedChecks = {}
    /\ \A i \in 1..5 :
           CheckOrder[i] \in failedChecks =>
               /\ mainPc = "aborted"
               /\ raised \in {"SystemExit", "ValueError"}
               /\ ~written
               /\ failedChecks = {CheckOrder[i]}
               /\ DOMAIN counts = {CheckOrder[j] : j \in 1..i}

\* C1 witness: 3 plugin names against the minimum of 15 ended the run
C1_Witness ==
    /\ mainPc = "aborted"
    /\ DOMAIN counts = {"properties", "plugins"}
    /\ counts["plugins"] = 3
    /\ failedChecks = {"plugins"}
    /\ raised = "ValueError"
    /\ ~written

\* C2: a failed retrieval ends the run before the file is written, for the
\* five fetches of main and the two fetches inside ExtensionParser.parse
\* alike: the run never goes on after a failed fetch, and the file is
\* written only when all seven documents were fetched.
C2_FailedFetchEndsRun ==
    /\ failedFetches # {} =>
           /\ mainPc = "aborted"
           /\ raised # "none"
           /\ ~written
           /\ Cardinality(failedFetches) = 1
           /\ \A i \in 1..Len(fetched) : fetched[i] \notin failedFetches
    /\ written =>
           fetched = <<"main", "plugins", "bases", "extensions", "registry",
                       "legacy", "interfaces">>

\* C2 witness: the second fetch inside ExtensionParser.parse failed after the
\* first had given names, and the run ended there
C2_Witness ==
    /\ mainPc = "aborted"
    /\ failedFetches = {"legacy"}
    /\ extensions # {}
    /\ fetched = <<"main", "plugins", "bases", "extensions", "registry">>
    /\ raised = "SystemExit"
    /\ ~written

----------------------------------------------------------------------------
(* Claims about the pipeline run twice *)

\* C3: two runs of the pipeline (extract_all, build, enhance, json.dumps)
\* on the same document and the same identifier lists agree at every stage:
\* on the extracted records, on every bucket's fields and their order, on
\* every enum list and on $defs, and at the end on the serialized content,
\* whatever order each run iterates its sets in.
C3_RunsAgree ==
    /\ run[1].pc = run[2].pc => run[1] = run[2]
    /\ (run[1].pc = "done" /\ run[2].pc = "done")
           => run[1].content = run[2].content

\* C3 witness: both runs have serialized the whole document with non-empty
\* lists, and the architecture names are in it in sorted order
C3_Witness ==
    /\ run[1].pc = "done"
    /\ run[2].pc = "done"
    /\ pipeDoc = AllSections
    /\ pipeLists.plugins = <<<<"foo">>, <<"bar">>>>
    /\ run[1].content = dumps(run[2].schema)
    /\ has_key(run[1].schema.defs, "Part")
    /\ dict_get(def_properties(run[1].schema, "Part"), <<"plugin">>).enum
           = <<<<"foo">>, <<"bar">>>>
    /\ dict_get(run[2].schema.properties, <<"platforms">>).propertyNames
           = [enum |-> <<<<"amd64">>, <<"arm64">>, <<"armhf">>, <<"i386">>,
                         <<"ppc64el">>, <<"riscv64">>, <<"s390x">>>>]

----------------------------------------------------------------------------
(* Claims about SchemaBuilder *)

\* rule i is the first rule, in PREFIX_MAPPINGS order, whose prefix path
\* starts with
FirstRule(path, i) ==
    /\ startswith(path, PREFIX_MAPPINGS[i].prefix)
    /\ \A j \in 1..(i - 1) : ~startswith(path, PREFIX_MAPPINGS[j].prefix)

\* what is left of path after the prefix of rule i
Rest(path, i) == SubSeq(path, Len(PREFIX_MAPPINGS[i].prefix) + 1, Len(path))

\* the properties handed to the builder that rule i is the first rule of and
\* that it puts in bucket c under name
PlacedBy(c, name) ==
    {k \in 1..Len(self_properties) :
        \E i \in 1..Len(PREFIX_MAPPINGS) :
            /\ FirstRule(self_properties[k].name, i)
            /\ PREFIX_MAPPINGS[i].category = c
            /\ Rest(self_properties[k].name, i) = name}

Categorized == buildPc \in {"definitions", "top_level", "enhance", "done"}

SocketPath ==
    <<"apps", ".", "<app-name>", ".", "sockets", ".", "<socket-name>", ".",
      "listen-stream">>

\* C11: after _categorize_properties, a key of a bucket other than the
\* top-level one is there because a path's first matching rule names that
\* bucket and leaves that key when its prefix is stripped; every path whose
\* first matching rule names a bucket and leaves a name without a nested
\* placeholder is in that bucket under that name, with the fragment of the
\* last such property; and the path
\* apps.<app-name>.sockets.<socket-name>.listen-stream is in the sockets
\* bucket as listen-stream and gives the apps bucket no key.
C11_FirstRuleWins ==
    Categorized =>
        /\ \A c \in DOMAIN self_categorized \ {"top_level"} :
               \A n \in 1..Len(self_categorized[c]) :
                   PlacedBy(c, self_categorized[c][n].name) # {}
        /\ \A k \in 1..Len(self_properties) :
               \A i \in 1..Len(PREFIX_MAPPINGS) :
                   LET path == self_properties[k].name
                       c == PREFIX_MAPPINGS[i].category
                       name == Rest(path, i)
                   IN  (/\ FirstRule(path, i)
                        /\ c # "None"
                        /\ ~dot_lt_in(name))
                       => /\ has_key(self_categorized[c], name)
                          /\ dict_get(self_categorized[c], name)
                                 = to_json_schema(
                                       self_properties[
                                           SetMax(PlacedBy(c, name))])
        /\ (\E k \in 1..Len(self_properties) :
                self_properties[k].name = SocketPath)
               => /\ has_key(self_categorized.sockets, <<"listen-stream">>)
                  /\ ~has_key(self_categorized.apps, <<"listen-stream">>)
                  /\ \A n \in 1..Len(self_categorized.apps) :
                         self_categorized.apps[n].name[1] # "sockets"

\* C11 witness: sockets.<socket-name>.listen-stream and then the path under
\* apps were categorized; the sockets bucket has the one field, with the
\* type of the later path, and the apps bucket is empty
C11_Witness ==
    /\ buildPc = "definitions"
    /\ Len(self_properties) = 2
    /\ self_properties[1].name
           = <<"sockets", ".", "<socket-name>", ".", "listen-stream">>
    /\ self_properties[2].name = SocketPath
    /\ self_categorized.sockets
           = <<[name |-> <<"listen-stream">>,
                schema |-> [type |-> "integer"]]>>
    /\ self_categorized.apps = <<>>

\* text has a placeholder segment
HasPlaceholder(text) == \E i \in 1..Len(text) : text[i] \in Placeholders

\* C12: after _categorize_properties no bucket has a key with a placeholder
\* segment in it, a path that matches a rule and whose remainder has a
\* placeholder segment is in no bucket, and a path that matches no rule is
\* in the top-level bucket when it has no placeholder segment and in no
\* bucket when it has one.
C12_NoLeftoverPlaceholder ==
    Categorized =>
        /\ \A c \in DOMAIN self_categorized :
               \A n \in 1..Len(self_categorized[c]) :
                   ~HasPlaceholder(self_categorized[c][n].name)
        /\ \A k \in 1..Len(self_properties) :
               LET path == self_properties[k].name
               IN  /\ \A i \in 1..Len(PREFIX_MAPPINGS) :
                          (FirstRule(path, i) /\ HasPlaceholder(Rest(path, i)))
                              => \A c \in DOMAIN self_categorized :
                                     ~has_key(self_categorized[c],
                                              Rest(path, i))
                   /\ (\A i \in 1..Len(PREFIX_MAPPINGS) : ~FirstRule(path, i))
                          => /\ has_key(self_categorized.top_level, path)
                                 <=> ~HasPlaceholder(path)
                             /\ \A c \in DOMAIN self_categorized \ {"top_level"} :
                                    ~has_key(self_categorized[c], path)

\* the definitions and the bucket each is built from
DefinitionBuckets ==
    [Socket |-> "sockets", Hook |-> "hooks", Permissions |-> "permissions",
     Lint |-> "lint", Platform |-> "platforms",
     Architecture |-> "architectures", ContentPlug |-> "plugs",
     Component |-> "components", App |-> "apps", Part |-> "parts"]

DefinitionsBuilt == buildPc \in {"top_level", "enhance", "done"}

\* C13: after _build_definitions, $defs has a definition exactly when the
\* bucket it is built from is not empty, it has no other keys, every
\* definition is an object, and additionalProperties is true for ContentPlug
\* and Part and false for every other definition.
C13_DefinitionPerBucket ==
    DefinitionsBuilt =>
        /\ \A d \in DOMAIN DefinitionBuckets :
               has_key(build_defs, d)
                   <=> self_categorized[DefinitionBuckets[d]] # <<>>
        /\ \A n \in 1..Len(build_defs) :
               /\ build_defs[n].name \in DOMAIN DefinitionBuckets
               /\ build_defs[n].schema.type = "object"
               /\ build_defs[n].schema.additionalProperties
                      = (build_defs[n].name \in {"ContentPlug", "Part"})
               /\ \A m \in 1..Len(build_defs) :
                      build_defs[m].name = build_defs[n].name => m = n

\* C13 witness: a document with a field in every bucket gave all ten
\* definitions, Part open and Socket closed
C13_Witness ==
    /\ buildPc = "top_level"
    /\ Len(build_defs) = 10
    /\ self_categorized.slots = <<>>
    /\ dict_get(build_defs, "Part").additionalProperties = TRUE
    /\ dict_get(build_defs, "ContentPlug").additionalProperties = TRUE
    /\ dict_get(build_defs, "Socket").additionalProperties = FALSE

SchemaBuilt == buildPc \in {"enhance", "done"}

\* C14: the top-level properties build returns have each of apps, parts,
\* hooks and components as an object whose additionalProperties is the
\* reference to App, Part, Hook or Component when that definition was built
\* and the open object {type: object, additionalProperties: true} when it
\* was not.
C14_WrapperAlwaysPresent ==
    SchemaBuilt =>
        \A w \in {<<"apps", "App">>, <<"parts", "Part">>, <<"hooks", "Hook">>,
                  <<"components", "Component">>} :
            /\ has_key(built_schema.properties, <<w[1]>>)
            /\ dict_get(built_schema.properties, <<w[1]>>).type = "object"
            /\ dict_get(built_schema.properties, <<w[1]>>).additionalProperties
                   = IF has_key(build_defs, w[2])
                     THEN "$ref" :> <<"#/$defs/", w[2]>>
                     ELSE [type |-> "object", additionalProperties |-> TRUE]

\* the rule with the longest prefix among those whose prefix path starts
\* with, for a path that one matches
LongestRule(path) ==
    CHOOSE i \in 1..Len(PREFIX_MAPPINGS) :
        /\ startswith(path, PREFIX_MAPPINGS[i].prefix)
        /\ \A j \in 1..Len(PREFIX_MAPPINGS) :
               startswith(path, PREFIX_MAPPINGS[j].prefix)
                   => Len(PREFIX_MAPPINGS[j].prefix)
                          <= Len(PREFIX_MAPPINGS[i].prefix)

\* C21: in PREFIX_MAPPINGS a rule whose prefix extends another rule's prefix
\* is listed before it; so for every path the builder is given that a rule
\* matches, the first rule that matches is the one with the longest prefix,
\* and _categorize_properties has put the path where longest-prefix matching
\* puts it: in that rule's bucket under what is left after that prefix.
C21_FirstMatchIsLongest ==
    Categorized =>
        /\ \A i, j \in 1..Len(PREFIX_MAPPINGS) :
               (/\ i # j
                /\ startswith(PREFIX_MAPPINGS[j].prefix,
                              PREFIX_MAPPINGS[i].prefix))
                   => j < i
        /\ \A k \in 1..Len(self_properties) :
               LET path == self_properties[k].name
                   longest == LongestRule(path)
                   c == PREFIX_MAPPINGS[longest].category
                   name == Rest(path, longest)
               IN  (\E i \in 1..Len(PREFIX_MAPPINGS) :
                        startswith(path, PREFIX_MAPPINGS[i].prefix))
                       => /\ FirstRule(path, longest)
                          /\ (c # "None" /\ ~dot_lt_in(name))
                                 => has_key(self_categorized[c], name)

\* C21 witness: a path under parts.<part-name>.permissions.<permission>. and
\* a path under components.<component-name>.hooks.<hook-type>. were
\* categorized; the first is in the permissions bucket and not in parts, the
\* second is in no bucket
C21_Witness ==
    /\ buildPc = "definitions"
    /\ Len(self_properties) = 2
    /\ self_properties[1].name
           = <<"parts", ".", "<part-name>", ".", "permissions", ".",
               "<permission>", ".", "owner">>
    /\ self_properties[2].name
           = <<"components", ".", "<component-name>", ".", "hooks", ".",
               "<hook-type>", ".", "command-chain">>
    /\ self_categorized.permissions
           = <<[name |-> <<"owner">>, schema |-> [type |-> "integer"]]>>
    /\ self_categorized.parts = <<>>
    /\ self_categorized.components = <<>>
    /\ self_categorized.hooks = <<>>

----------------------------------------------------------------------------
(* Claims about SchemaEnhancer *)

\* the keys of a dict, in its order
KeysOf(d) == [n \in 1..Len(d) |-> d[n].name]

Enhanced == buildPc = "done"

\* C15: enhance leaves the keys of the top-level properties and of $defs as
\* build made them, in number and in order, for every built schema and every
\* choice of the identifier lists; a top-level field other than plugs and
\* slots keeps every key its fragment had, with the values of all keys but
\* "enum" and "items", and only base, build-base, architectures, platforms,
\* plugs and slots change at all.
C15_EnhanceKeepsKeys ==
    Enhanced =>
        /\ KeysOf(self_schema.properties) = KeysOf(built_schema.properties)
        /\ KeysOf(self_schema.defs) = KeysOf(built_schema.defs)
        /\ \A n \in 1..Len(built_schema.properties) :
               LET name == built_schema.properties[n].name
                   before == built_schema.properties[n].schema
                   after == self_schema.properties[n].schema
               IN  /\ name \notin {<<"plugs">>, <<"slots">>}
                          => /\ DOMAIN before \subseteq DOMAIN after
                             /\ \A k \in DOMAIN before \ {"enum", "items"} :
                                    after[k] = before[k]
                   /\ name \notin {<<"plugs">>, <<"slots">>, <<"base">>,
                                   <<"build-base">>, <<"architectures">>,
                                   <<"platforms">>}
                          => after = before

\* C15 witness: with non-empty lists, base got its enum, and plugs, which a
\* top-level heading had given enum values, was replaced as a whole
C15_Witness ==
    /\ buildPc = "done"
    /\ enhancer_lists.bases = <<<<"core22">>, <<"core24">>>>
    /\ has_key(built_schema.properties, <<"base">>)
    /\ "enum" \notin DOMAIN dict_get(built_schema.properties, <<"base">>)
    /\ dict_get(self_schema.properties, <<"base">>).enum
           = enhancer_lists.bases
    /\ "enum" \in DOMAIN dict_get(built_schema.properties, <<"plugs">>)
    /\ "enum" \notin DOMAIN dict_get(self_schema.properties, <<"plugs">>)
    /\ ~has_key(self_schema.properties, <<"build-base">>)

\* C16: after build and enhance with a non-empty interface list, plugs and
\* slots are both top-level fields, each an object whose additionalProperties
\* is the alternative of three branches: null, string, and an open object
\* whose "interface" field has the interface list as its enum and whose
\* "bus" field has the enum session, system. This holds whether the
\* documentation gave plugs and slots a top-level field or the builder's
\* default stood in.
C16_PlugsAndSlots ==
    (Enhanced /\ enhancer_lists.interfaces # <<>>) =>
        \A key \in {<<"plugs">>, <<"slots">>} :
            /\ has_key(self_schema.properties, key)
            /\ LET field == dict_get(self_schema.properties, key)
                   branches == field.additionalProperties.anyOf
               IN  /\ field.type = "object"
                   /\ DOMAIN field = {"type", "description",
                                      "additionalProperties"}
                   /\ Len(branches) = 3
                   /\ branches[1] = [type |-> "null"]
                   /\ branches[2] = [type |-> "string"]
                   /\ branches[3].type = "object"
                   /\ KeysOf(branches[3].properties)
                          = <<<<"interface">>, <<"bus">>, <<"name">>,
                              <<"target">>, <<"default-provider">>,
                              <<"content">>>>
                   /\ branches[3].properties[1].schema.enum
                          = enhancer_lists.interfaces
                   /\ branches[3].properties[2].schema.enum
                          = <<<<"session">>, <<"system">>>>
                   /\ \A n \in 1..6 :
                          branches[3].properties[n].schema.type = "string"

\* C16 witness: the documentation gave plugs enum values and gave slots
\* nothing, and after enhance with 26 interface names both carry the
\* alternative with the 26 names
C16_Witness ==
    /\ buildPc = "done"
    /\ Len(enhancer_lists.interfaces) = 26
    /\ \E k \in 1..Len(self_properties) :
           /\ self_properties[k].name = <<"plugs">>
           /\ self_properties[k].enum_values # <<>>
    /\ \A k \in 1..Len(self_properties) :
           self_properties[k].name # <<"slots">>
    /\ dict_get(built_schema.properties, <<"plugs">>).enum
           = <<<<"bar">>, <<"foo">>>>
    /\ dict_get(built_schema.properties, <<"slots">>).additionalProperties
           = TRUE
    /\ \A key \in {<<"plugs">>, <<"slots">>} :
           Len(dict_get(self_schema.properties, key).additionalProperties
                   .anyOf[3].properties[1].schema.enum) = 26

----------------------------------------------------------------------------
(* Claims about one scope of _parse_property_content *)

\* node is a paragraph whose first <strong> reads label, whatever its case
IsLabel(node, label) ==
    /\ node.name = "p"
    /\ node.has_strong
    /\ [i \in 1..Len(node.strong) |->
           IF node.strong[i] = "Type" THEN "type"
           ELSE IF node.strong[i] = "Description" THEN "description"
           ELSE IF node.strong[i] = "Values" THEN "values"
           ELSE node.strong[i]] = <<label>>

\* node is a paragraph without a <strong>
IsUnlabelled(node) == node.name = "p" /\ ~node.has_strong

\* the step is a turn of the while loop
LoopTurn == exPc = "walk" /\ exPc' = "walk" /\ Len(scope') = Len(scope) + 1

\* C17: in one scope, once a paragraph labelled "Description" has been
\* walked, no turn of the loop on an unlabelled paragraph changes the
\* property's type descriptor, a "Type" label walked in between or not.
C17_DescriptionClosesType ==
    [][(/\ LoopTurn
        /\ IsUnlabelled(scope'[Len(scope')])
        /\ \E i \in 1..Len(scope) : IsLabel(scope[i], "description"))
           => prop'.type_schema = prop.type_schema]_vars

\* C17 witness: "Description", then "Type", then a paragraph with a type in
\* it were walked; the loop expects a type and the descriptor is still empty
C17_Witness ==
    /\ exPc = "walk"
    /\ scope = <<Label(<<"Description">>), Label(<<"Type">>),
                 Para(<<"str">>, <<>>)>>
    /\ expecting_type
    /\ found_type
    /\ prop.type_schema = EmptyFrag

\* a "Values" label was walked and no "Type" or "Description" label after it
AfterValuesLabel(nodes) ==
    \E i \in 1..Len(nodes) :
        /\ IsLabel(nodes[i], "values")
        /\ \A j \in (i + 1)..Len(nodes) :
               /\ ~IsLabel(nodes[j], "type")
               /\ ~IsLabel(nodes[j], "description")

\* C18: in one scope, the turn of the loop on a paragraph labelled "Values"
\* leaves expecting_type and expecting_desc both false, and from then until
\* a paragraph labelled "Type" or "Description" is walked, a turn on an
\* unlabelled paragraph changes neither the type descriptor nor the
\* description, and captures nothing.
C18_ValuesClearsFlags ==
    [][LoopTurn =>
          /\ IsLabel(scope'[Len(scope')], "values")
                 => (~expecting_type' /\ ~expecting_desc')
          /\ (IsUnlabelled(scope'[Len(scope')]) /\ AfterValuesLabel(scope))
                 => /\ prop' = prop
                    /\ found_type' = found_type
                    /\ found_desc' = found_desc]_vars

\* C18 witness: "Type", then "Values", then a paragraph were walked in a
\* scope, and neither a type nor a description was captured
C18_Witness ==
    /\ exPc = "walk"
    /\ scope = <<Label(<<"Type">>), Label(<<"Values">>),
                 Para(<<"str">>, <<>>)>>
    /\ ~expecting_type
    /\ ~expecting_desc
    /\ ~found_type
    /\ ~found_desc
    /\ prop.type_schema = EmptyFrag
    /\ prop.description = <<>>

\* the values each node walked so far offers as enum values: those of a
\* table, or of the table in a div, and none for any other node
TableResults ==
    [i \in 1..Len(scope) |->
        IF \/ scope[i].name = "table"
           \/ (scope[i].name = "div" /\ scope[i].has_table)
        THEN _extract_table_values(scope[i].rows)
        ELSE <<>>]

\* C19: in one scope, the property's enum values are the values of the
\* first table, bare or inside a div, whose extracted list is not empty, and
\* are empty when there is no such table: a table without values before it
\* does not block it, and no later table or div changes them.
C19_FirstNonEmptyTable ==
    exPc \in {"walk", "headings"} =>
        LET nonempty == {i \in 1..Len(scope) : TableResults[i] # <<>>}
        IN  /\ nonempty = {} => prop.enum_values = <<>>
            /\ \A i \in nonempty :
                   (\A j \in nonempty : i <= j)
                       => prop.enum_values = TableResults[i]

\* C19 witness: a table without values, a div with the table of baz, and
\* the table of foo and bar were walked, and the enum values are baz
C19_Witness ==
    /\ exPc = "walk"
    /\ scope = <<Table(<<HeaderRow>>), Div(TRUE, <<<<<<"baz">>>>>>),
                 Table(FooBarTable)>>
    /\ prop.enum_values = <<<<"baz">>>>

----------------------------------------------------------------------------
(* Claims about the references of the schema *)

\* the "$ref" values anywhere in a fragment: its own, and those in its
\* items, in the branches of its anyOf, in its additionalProperties when
\* that is a fragment and not true or false, and in its properties
RECURSIVE RefsIn(_)
RefsIn(frag) ==
    (IF "$ref" \in DOMAIN frag THEN {frag["$ref"]} ELSE {})
    \cup (IF "items" \in DOMAIN frag THEN RefsIn(frag.items) ELSE {})
    \cup (IF "anyOf" \in DOMAIN frag
          THEN UNION {RefsIn(frag.anyOf[n]) : n \in 1..Len(frag.anyOf)}
          ELSE {})
    \cup (IF /\ "additionalProperties" \in DOMAIN frag
             /\ ToString(frag.additionalProperties) \notin {"TRUE", "FALSE"}
          THEN RefsIn(frag.additionalProperties)
          ELSE {})
    \cup (IF "properties" \in DOMAIN frag
          THEN UNION {RefsIn(frag.properties[n].schema) :
                          n \in 1..Len(frag.properties)}
          ELSE {})

\* the "$ref" values anywhere in a schema
SchemaRefs(sch) ==
    UNION {RefsIn(sch.properties[n].schema) : n \in 1..Len(sch.properties)}
    \cup UNION {RefsIn(sch.defs[n].schema) : n \in 1..Len(sch.defs)}

\* every reference of the schema is "#/$defs/X" with X a key of its $defs
RefsResolve(sch) ==
    \A r \in SchemaRefs(sch) : r[1] = "#/$defs/" /\ has_key(sch.defs, r[2])

\* C22: every "$ref" in the schema build returns, in a definition or in
\* the top-level properties, names a definition that is in the schema's
\* $defs; so does every "$ref" in the schema after enhance; and a schema
\* without $defs has no "$ref" in it.
C22_RefsResolve ==
    /\ SchemaBuilt =>
           /\ RefsResolve(built_schema)
           /\ built_schema.defs = <<>> => SchemaRefs(built_schema) = {}
    /\ Enhanced =>
           /\ RefsResolve(self_schema)
           /\ self_schema.defs = <<>> => SchemaRefs(self_schema) = {}

\* C22 witness: the schema of a document with a field in every bucket was
\* enhanced; it refers to nine of its ten definitions, in the top-level
\* properties and inside App, Part and Component
C22_Witness ==
    /\ buildPc = "done"
    /\ Len(self_schema.defs) = 10
    /\ {r[2] : r \in SchemaRefs(self_schema)}
           = {"App", "Part", "Hook", "Component", "Platform", "Architecture",
              "Lint", "Socket", "Permissions"}
    /\ RefsIn(dict_get(self_schema.defs, "App"))
           = {<<"#/$defs/", "Socket">>}
    /\ Len(enhancer_lists.interfaces) = 26

----------------------------------------------------------------------------
(* Claims about the flags of _parse_property_content *)

\* the locals before the first turn of the loop over nodes and after each
RECURSIVE walk_trace(_, _)
walk_trace(w, nodes) ==
    IF nodes = <<>> THEN <<w>>
    ELSE <<w>> \o walk_trace(walk_node(w, nodes[1]), Tail(nodes))

\* the locals at every step of the walk over the scope so far
WalkTrace == walk_trace(walk_start(PropertySchema(prop.name)), scope)

\* the turns on an unlabelled paragraph that gave the property its type
TypeCaptures ==
    LET t == WalkTrace
    IN  {n \in 1..Len(scope) :
            /\ IsUnlabelled(scope[n])
            /\ t[n + 1].prop.type_schema # t[n].prop.type_schema}

\* the turns on an unlabelled paragraph that gave it its description
DescCaptures ==
    LET t == WalkTrace
    IN  {n \in 1..Len(scope) :
            /\ IsUnlabelled(scope[n])
            /\ t[n + 1].prop.description # t[n].prop.description}

\* C23: at every step of the walk over one scope, expecting_type and
\* expecting_desc are not both true, whatever paragraphs, labels, tables,
\* divs and definition lists were walked; and in the scope at most one
\* unlabelled paragraph gave the type and at most one gave the description.
C23_FlagsExclusive ==
    exPc = "walk" =>
        /\ ~(expecting_type /\ expecting_desc)
        /\ WalkTrace[Len(scope) + 1] = Locals
        /\ Cardinality(TypeCaptures) <= 1
        /\ Cardinality(DescCaptures) <= 1

\* C23 witness: "Type", a type, "Type" again and another type were walked;
\* the first paragraph gave the type, the second did not, and the loop
\* expects a type and no description
C23_Witness ==
    /\ exPc = "walk"
    /\ scope = <<Label(<<"Type">>), Para(<<"str">>, <<>>),
                 Label(<<"Type">>),
                 Para(<<"list", "[", "int", "]">>,
                      <<<<"list", "[", "int", "]">>>>)>>
    /\ TypeCaptures = {2}
    /\ prop.type_schema = TypeParser_parse(<<"str">>)
    /\ expecting_type
    /\ ~expecting_desc
    /\ found_type

=============================================================================
